---- MODULE Spec2Model ----
(***************************************************************************)
(* Hot state cache (package hotcache): snapshot-versioned cache, the       *)
(* block-driven updater, the reorg handler, the decoder registry with the  *)
(* Uniswap-V2 decoder, and the shadow validator.                           *)
(*                                                                         *)
(* Snapshots are Go pointers: the model keeps a heap of snapshot objects   *)
(* (heap[id]) and the cache's current pointer and history map hold ids.    *)
(* 32-byte words, addresses and big integers are big-endian byte tuples.   *)
(***************************************************************************)
EXTENDS Integers, Sequences, FiniteSets, TLC

VARIABLES
    config,      \* Cache.config: Enabled, ShadowMode, MaxSnapshots
    watchlist,   \* Cache.watchlist: the set of watched addresses
    heap,        \* the Snapshot objects allocated so far, by object id
    current,     \* Cache.current: id of the published snapshot
    snapshots,   \* Cache.snapshots: block hash -> snapshot id
    decoders,    \* Cache.decoders: address -> decoder
    stats,       \* Cache.stats: the five counters
    wpc,         \* the writer's position inside Update / HandleReorg
    upd,         \* the running Update call's locals
    reorg,       \* the running HandleReorg call's locals
    held,        \* per reader: the snapshot id it obtained from GetSnapshot
    last,        \* the last completed call and what it returned
    dec,         \* a direct call of UniswapV2Decoder.Decode: its input and result
    hotCache,    \* BlockChain.hotCache: "cache" (this cache) or "nil"
    gst,         \* the running GetStatistics call: the fields copied so far
    validation,  \* the running Validate or ValidateContract call
    lookup       \* the running GetContractState call of a reader

vars == <<config, watchlist, heap, current, snapshots, decoders, stats,
          wpc, upd, reorg, held, last, dec, hotCache, gst, validation, lookup>>

--------------------------------------------------------------------------
(* Bounds of the model *)

\* block numbers of the headers fed to the cache are 1..MaxBlock
MaxBlock == 3
\* Update calls begun by the host (stats.Updates is capped by it)
MaxUpdates == 2
\* HandleReorg calls, and reader / validator calls
MaxCalls == 1

\* block numbers of the headers in the runs with gaps are 1..MaxGapBlock
MaxGapBlock == 4

--------------------------------------------------------------------------
(* Words, addresses, big integers *)

HashLength == 32
AddressLength == 20

Zeros(n) == [i \in 1..n |-> 0]

\* common.BytesToHash / common.BigToHash: left-pad (or crop from the left) to 32 bytes
BytesToHash(b) ==
    IF Len(b) >= HashLength
    THEN SubSeq(b, Len(b) - HashLength + 1, Len(b))
    ELSE Zeros(HashLength - Len(b)) \o b

\* common.BytesToAddress: the low (rightmost) 20 bytes, left-padded
BytesToAddress(b) ==
    IF Len(b) >= AddressLength
    THEN SubSeq(b, Len(b) - AddressLength + 1, Len(b))
    ELSE Zeros(AddressLength - Len(b)) \o b

\* big.Int.SetBytes: the unsigned big-endian value; a big integer is kept as
\* its minimal big-endian byte string (no leading zero byte, zero = <<>>)
RECURSIVE SetBytes(_)
SetBytes(b) ==
    IF b = <<>> THEN <<>>
    ELSE IF Head(b) = 0 THEN SetBytes(Tail(b))
    ELSE b

ZeroWord == Zeros(HashLength)

MaxWord == [i \in 1..HashLength |-> 255]
CountWord == [i \in 1..HashLength |-> i]

--------------------------------------------------------------------------
(* Contract types and decoders *)

ContractTypeUnknown == 0
ContractTypeUniswapV2 == 1
ContractTypeUniswapV3 == 2
ContractTypeAave == 3
ContractTypeCurve == 4

\* ContractState.Decoded = nil
Nil == [kind |-> "nil"]

\* storage slot keys: common.BigToHash(big.NewInt(n)), written as n
uniswapV2SlotToken0 == 6
uniswapV2SlotToken1 == 7
uniswapV2SlotReserves == 8
uniswapV2SlotPrice0Cumulative == 9
uniswapV2SlotPrice1Cumulative == 10
uniswapV2SlotKLast == 11

\* a mask of 104 bits in place of 112
And112_Low13(x) == IF Len(x) > 13 THEN SetBytes(SubSeq(x, Len(x) - 12, Len(x))) ELSE x

\* big.Int.And(x, mask112): the low 112 bits = the low 14 bytes
And112(x) == IF Len(x) > 14 THEN SetBytes(SubSeq(x, Len(x) - 13, Len(x))) ELSE x

\* big.Int.Rsh(x, 8 * n): drop the low n bytes
RshBytes(x, n) == IF Len(x) > n THEN SubSeq(x, 1, Len(x) - n) ELSE <<>>

\* uint32(x.Uint64()): the low 32 bits = the low 4 bytes
Uint32(x) == IF Len(x) > 4 THEN SetBytes(SubSeq(x, Len(x) - 3, Len(x))) ELSE x

Range(f) == {f[i] : i \in DOMAIN f}

\* UniswapV2Decoder.RequiredSlots
UniswapV2RequiredSlots ==
    <<uniswapV2SlotToken0, uniswapV2SlotToken1, uniswapV2SlotReserves,
      uniswapV2SlotPrice0Cumulative, uniswapV2SlotPrice1Cumulative, uniswapV2SlotKLast>>

\* UniswapV2Decoder.Decode: a decoded record, or the error (err # "")
UniswapV2Decode(slots) ==
    IF uniswapV2SlotToken0 \notin DOMAIN slots
    THEN [err |-> "missing token0 slot", state |-> Nil]
    ELSE IF uniswapV2SlotToken1 \notin DOMAIN slots
    THEN [err |-> "missing token1 slot", state |-> Nil]
    ELSE IF uniswapV2SlotReserves \notin DOMAIN slots
    THEN [err |-> "missing reserves slot", state |-> Nil]
    ELSE
      LET fullValue == SetBytes(slots[uniswapV2SlotReserves])
          opt(s) == IF s \in DOMAIN slots THEN SetBytes(slots[s]) ELSE <<>>
      IN [err |-> "",
          state |-> [kind |-> "UniswapV2State",
                     Token0 |-> BytesToAddress(slots[uniswapV2SlotToken0]),
                     Token1 |-> BytesToAddress(slots[uniswapV2SlotToken1]),
                     Reserve0 |-> And112(fullValue),
                     Reserve1 |-> And112(RshBytes(fullValue, 14)),
                     BlockTimestampLast |-> Uint32(RshBytes(fullValue, 28)),
                     Price0Cumulative |-> opt(uniswapV2SlotPrice0Cumulative),
                     Price1Cumulative |-> opt(uniswapV2SlotPrice1Cumulative),
                     KLast |-> opt(uniswapV2SlotKLast)]]

\* A second implementation of the ContractDecoder interface, as a host may
\* register one: type Aave, one required slot, and a Decode that reports an
\* error on an all-zero word.
StubSlot == 1
StubDecode(slots) ==
    IF StubSlot \notin DOMAIN slots \/ slots[StubSlot] = ZeroWord
    THEN [err |-> "empty market slot", state |-> Nil]
    ELSE [err |-> "", state |-> [kind |-> "StubState", Value |-> slots[StubSlot]]]

DecoderSet == {"UniswapV2Decoder", "StubDecoder"}

\* ContractDecoder.Type
DecoderType(d) ==
    IF d = "UniswapV2Decoder" THEN ContractTypeUniswapV2 ELSE ContractTypeAave

\* ContractDecoder.RequiredSlots
RequiredSlots(d) ==
    IF d = "UniswapV2Decoder" THEN UniswapV2RequiredSlots ELSE <<StubSlot>>

\* ContractDecoder.Decode
Decode(d, slots) ==
    IF d = "UniswapV2Decoder" THEN UniswapV2Decode(slots) ELSE StubDecode(slots)

--------------------------------------------------------------------------
(* The host's inputs: addresses, state readers, block headers *)

Addrs == {"P", "Q"}

USDC == [i \in 1..AddressLength |-> 160 + i]
WETH == [i \in 1..AddressLength |-> 192 + i]

\* reserve0 = 1000000, reserve1 = 500, timestamp = 1234567890 in one word:
\* [timestamp (4 bytes)][reserve1 (14 bytes)][reserve0 (14 bytes)]
PackedReserves ==
    <<73, 150, 2, 210>> \o Zeros(12) \o <<1, 244>> \o Zeros(11) \o <<15, 66, 64>>

PoolWord(slot) ==
    CASE slot = uniswapV2SlotToken0 -> BytesToHash(USDC)
      [] slot = uniswapV2SlotToken1 -> BytesToHash(WETH)
      [] slot = uniswapV2SlotReserves -> PackedReserves
      [] slot = uniswapV2SlotPrice0Cumulative -> BytesToHash(<<1, 226, 64>>)
      [] slot = uniswapV2SlotPrice1Cumulative -> BytesToHash(<<12, 10, 20>>)
      [] slot = uniswapV2SlotKLast -> BytesToHash(<<15, 66, 63>>)
      [] OTHER -> CountWord

Readers == {"r1", "r2"}

\* StateReader.GetState of the two canonical states the host may hand in
GetState(r, addr, slot) ==
    CASE r = "r1" /\ addr = "P" -> PoolWord(slot)
      [] r = "r2" /\ addr = "P" ->
            IF slot = uniswapV2SlotToken0 THEN CountWord
            ELSE IF slot = uniswapV2SlotReserves THEN MaxWord
            ELSE PoolWord(slot)
      [] r = "r1" -> MaxWord
      [] OTHER -> ZeroWord

Branches == {"a", "b"}

\* types.Header: number, hash and time; the hash identifies the header
Header(n, b) == [Number |-> n, Hash |-> <<n, b>>, Time |-> 10 * n + (IF b = "a" THEN 0 ELSE 1)]

\* block 1 is the common root; the branches a and b fork above it
Headers == {Header(n, b) : n \in 1..MaxBlock, b \in Branches} \ {Header(1, "b")}

\* the reader the host hands in with a header: the canonical state at that block
StateAt(block) == IF block.Hash[2] = "a" THEN "r1" ELSE "r2"

\* common.Hash{}: the zero hash, which no header has
HashZero == <<0, "">>

\* the parent of a header: branch b leaves branch a after block 1
ParentHash(h) ==
    IF h.Number <= 2 THEN <<h.Number - 1, "a">> ELSE <<h.Number - 1, h.Hash[2]>>

--------------------------------------------------------------------------
(* Cache core: construction and the operations as functions of the cache   *)
(* value c = [heap, current, snapshots, stats]                             *)

DefaultMaxSnapshots == 64

\* Config values: DefaultConfig(), and the configurations the host
\* constructs the cache with
DefaultConfig ==
    [Enabled |-> FALSE, Watchlist |-> {}, ShadowMode |-> TRUE, MaxSnapshots |-> DefaultMaxSnapshots]

Configs ==
    { DefaultConfig,
      [Enabled |-> TRUE, Watchlist |-> {}, ShadowMode |-> FALSE, MaxSnapshots |-> 0],
      [Enabled |-> FALSE, Watchlist |-> {"P", "Q"}, ShadowMode |-> TRUE, MaxSnapshots |-> 1] }
    \cup
    { [Enabled |-> TRUE, Watchlist |-> w, ShadowMode |-> sh, MaxSnapshots |-> m] :
        w \in {{"P", "Q"}}, sh \in {TRUE}, m \in {1, 2} }
    \cup
    { [Enabled |-> TRUE, Watchlist |-> {"P"}, ShadowMode |-> FALSE, MaxSnapshots |-> 2] }

\* ContractType.String
ContractTypeString(t) ==
    IF t = ContractTypeUniswapV2 THEN "UniswapV2"
    ELSE IF t = ContractTypeUniswapV3 THEN "UniswapV3"
    ELSE IF t = ContractTypeAave THEN "Aave"
    ELSE IF t = ContractTypeCurve THEN "Curve"
    ELSE "Unknown"

\* an initial snapshot that claims block 1
InitialSnapshot_Block1 ==
    [BlockNumber |-> 1, BlockHash |-> HashZero, BlockTime |-> 0, Contracts |-> <<>>]

\* Snapshot{Contracts: make(map)}: the zero-valued initial snapshot
InitialSnapshot ==
    [BlockNumber |-> 0, BlockHash |-> HashZero, BlockTime |-> 0, Contracts |-> <<>>]

ZeroStats ==
    [Hits |-> 0, Misses |-> 0, Updates |-> 0, ValidationErrors |-> 0, ReorgCount |-> 0]

\* the fields of Statistics, in the order of the struct
StatisticsFields == <<"Hits", "Misses", "Updates", "ValidationErrors", "ReorgCount">>

\* no GetStatistics call is running: n fields of the copy are filled when one is
NoStatistics == [active |-> FALSE, n |-> 0, copy |-> ZeroStats]

\* New: MaxSnapshots 0 becomes the default
NewConfig(cfg) ==
    IF cfg.MaxSnapshots = 0
    THEN [cfg EXCEPT !.MaxSnapshots = DefaultMaxSnapshots]
    ELSE cfg

Cache == [heap |-> heap, current |-> current, snapshots |-> snapshots, stats |-> stats]

\* m[k] = v on a Go map
Put(m, k, v) == [x \in DOMAIN m \cup {k} |-> IF x = k THEN v ELSE m[x]]

\* updateContract that never sets the entry's type
Decoded_NoType(contractState, decoder, raw, res) ==
    IF res.err # ""
    THEN [err |-> "failed to decode " \o ContractTypeString(DecoderType(decoder)) \o ": "
                      \o res.err,
          state |-> Nil]
    ELSE [err |-> "", state |-> [contractState EXCEPT !.RawSlots = raw,
                                                       !.Decoded = res.state]]

\* updateContract's result for a decoded contract: nil and the decoder's error
\* wrapped with the decoder's type, or the state with the decoder's type, the
\* raw slots and the decoded record
Decoded(contractState, decoder, raw, res) ==
    IF res.err # ""
    THEN [err |-> "failed to decode " \o ContractTypeString(DecoderType(decoder)) \o ": "
                      \o res.err,
          state |-> Nil]
    ELSE [err |-> "",
          state |-> [contractState EXCEPT !.Type = DecoderType(decoder),
                                          !.RawSlots = raw,
                                          !.Decoded = res.state]]

\* updateContract's read of the required slots, then Decode
ReadAndDecode(contractState, stateDB, decoder, raw) ==
    Decoded(contractState, decoder, raw, Decode(decoder, raw))

NewContractState(addr) ==
    [Address |-> addr, Type |-> ContractTypeUnknown, RawSlots |-> <<>>,
     Decoded |-> Nil, LastUpdated |-> 0]

\* updateContract that reports an error for an address without decoder
updateContractWith_NoDecoderIsError(addr, stateDB, hasDecoder, decoder) ==
    IF hasDecoder
    THEN ReadAndDecode(NewContractState(addr), stateDB, decoder,
                       [s \in Range(RequiredSlots(decoder)) |-> GetState(stateDB, addr, s)])
    ELSE [err |-> "no decoder", state |-> Nil]

\* updateContract that reads every required slot at the first one's position
updateContractWith_OneSlot(addr, stateDB, hasDecoder, decoder) ==
    IF hasDecoder
    THEN ReadAndDecode(NewContractState(addr), stateDB, decoder,
                       [s \in Range(RequiredSlots(decoder)) |->
                            GetState(stateDB, addr, RequiredSlots(decoder)[1])])
    ELSE [err |-> "", state |-> NewContractState(addr)]

\* the ContractState updateContract builds once the registry lookup is done
updateContractWith(addr, stateDB, hasDecoder, decoder) ==
    IF hasDecoder
    THEN ReadAndDecode(NewContractState(addr), stateDB, decoder,
                       [s \in Range(RequiredSlots(decoder)) |-> GetState(stateDB, addr, s)])
    ELSE [err |-> "", state |-> NewContractState(addr)]

\* Cache.updateContract
updateContract(addr, stateDB, decs) ==
    IF addr \in DOMAIN decs
    THEN updateContractWith(addr, stateDB, TRUE, decs[addr])
    ELSE updateContractWith(addr, stateDB, FALSE, "")

\* a cleanup whose window is one block short: it also removes the snapshots
\* MaxSnapshots - 1 blocks below the current block
cleanupOldSnapshots_WindowShort(snaps, hp, currentBlock) ==
    IF Cardinality(DOMAIN snaps) <= config.MaxSnapshots
    THEN snaps
    ELSE [h \in {k \in DOMAIN snaps :
                   ~(hp[snaps[k]].BlockNumber + config.MaxSnapshots <= currentBlock + 1)} |->
             snaps[h]]

\* Cache.cleanupOldSnapshots, on the history map snaps (hash -> id into hp)
cleanupOldSnapshots(snaps, hp, currentBlock) ==
    IF Cardinality(DOMAIN snaps) <= config.MaxSnapshots
    THEN snaps
    ELSE LET cutoff == IF currentBlock > config.MaxSnapshots
                       THEN currentBlock - config.MaxSnapshots
                       ELSE 0
         IN [h \in {k \in DOMAIN snaps : ~(hp[snaps[k]].BlockNumber < cutoff)} |-> snaps[h]]

\* the snapshot Update builds for a header: the watched contracts whose
\* updateContract returned no error
BuildSnapshot(block, stateDB, decs) ==
    [BlockNumber |-> block.Number, BlockHash |-> block.Hash, BlockTime |-> block.Time,
     Contracts |-> [a \in {x \in watchlist : updateContract(x, stateDB, decs).err = ""} |->
                        updateContract(a, stateDB, decs).state]]

\* a store keyed by the block number alone, as if on branch a
StoreSnapshot_ByNumber(snaps, hp, block, id) ==
    cleanupOldSnapshots(Put(snaps, <<block.Number, "a">>, id), hp, block.Number)

\* Update's store into the history map, followed by the cleanup
StoreSnapshot(snaps, hp, block, id) ==
    cleanupOldSnapshots(Put(snaps, block.Hash, id), hp, block.Number)

\* Update once newSnapshot is built: count, store and clean up, publish
Publish(c, block, newSnapshot) ==
    [c EXCEPT !.stats.Updates = @ + 1,
              !.heap = Append(@, newSnapshot),
              !.snapshots = StoreSnapshot(@, Append(c.heap, newSnapshot), block, Len(c.heap) + 1),
              !.current = Len(c.heap) + 1]

\* Cache.Update run alone, no other goroutine in between: the cache it leaves
UpdateC(c, block, stateDB, decs) ==
    IF ~config.Enabled THEN c
    ELSE Publish(c, block, BuildSnapshot(block, stateDB, decs))

\* a search that scans the old chain from its first header up
FindCommon_FromRoot(oldChain, newChain, i) ==
    LET shared == {k \in 1..i : \E j \in DOMAIN newChain :
                                   newChain[j].Hash = oldChain[k].Hash}
    IN IF shared = {} THEN HashZero
       ELSE oldChain[CHOOSE k \in shared : \A m \in shared : k <= m].Hash

\* HandleReorg's search for the common ancestor: old chain from its last
\* header down, new chain from its last header down, the first equal pair
RECURSIVE FindInNew(_, _, _)
FindInNew(h, newChain, j) ==
    IF j < 1 THEN HashZero
    ELSE IF h.Hash = newChain[j].Hash THEN h.Hash
    ELSE FindInNew(h, newChain, j - 1)

RECURSIVE FindCommon(_, _, _)
FindCommon(oldChain, newChain, i) ==
    IF i < 1 THEN HashZero
    ELSE LET commonHash == FindInNew(oldChain[i], newChain, Len(newChain))
         IN IF commonHash # HashZero THEN commonHash
            ELSE FindCommon(oldChain, newChain, i - 1)

--------------------------------------------------------------------------
(* The state after construction *)

\* the running Update: its inputs, the snapshot object it fills (id), the
\* addresses left (todo), the address in work and its lookup's result, whether
\* the state reader was called, the decoders its lookups found (decs) and the
\* cache as it was when the call began (pre)
NoUpdate == [block |-> Header(0, ""), stateDB |-> "", id |-> 0, todo |-> {},
             addr |-> "", hasDecoder |-> FALSE, decoder |-> "", called |-> FALSE,
             decs |-> <<>>, pre |-> Nil]

\* the running HandleReorg: its inputs, the common hash and the snapshot found
\* under it, the headers left to replay (rest) and the cache as it was when
\* the call began (pre)
NoReorg == [active |-> FALSE, oldChain |-> <<>>, newChain |-> <<>>, stateDB |-> "",
            rest |-> <<>>, called |-> FALSE, commonHash |-> HashZero,
            commonSnapshot |-> 0, pre |-> Nil]

\* the call that returned last: its inputs, the error it returned (ret), the
\* value it returned (val), whether it called the state reader
\* (readerCalled) and, for a call of the writer, the decoders its lookups
\* found (decs) and the cache as it was when the call began (pre)
NoCall == [op |-> "New", block |-> Header(0, ""), stateDB |-> "", oldChain |-> <<>>,
           newChain |-> <<>>, addr |-> "", slot |-> 0, ret |-> "nil", val |-> Nil,
           readerCalled |-> FALSE, decs |-> <<>>, pre |-> Nil, snap |-> 0]

\* no Validate or ValidateContract call is running.  A running one holds its
\* position (pc), its inputs, the snapshot it loaded (snap, the object's
\* id), the contracts of that snapshot not compared yet (todo) and whether
\* the state reader was called
NoValidation == [pc |-> "idle", op |-> "", addr |-> "", stateDB |-> "", snap |-> 0,
                 todo |-> {}, called |-> FALSE]

\* no GetContractState call of a reader is running.  A running one holds the
\* operation that called it (op), its inputs and the snapshot it loaded
\* (snap, the object's id)
NoLookup == [pc |-> "idle", op |-> "", addr |-> "", slot |-> 0, snap |-> 0]

\* no direct Decode call
NoDecode == [reserve0 |-> <<>>, reserve1 |-> <<>>, ts |-> <<>>, slots |-> <<>>,
             pc |-> "none", err |-> "", state |-> Nil]

ReaderIds == {1}

\* New
Init ==
    /\ \E cfg \in Configs :
          /\ config = [Enabled |-> cfg.Enabled, ShadowMode |-> cfg.ShadowMode,
                       MaxSnapshots |-> NewConfig(cfg).MaxSnapshots]
          /\ watchlist = cfg.Watchlist
    /\ heap = <<InitialSnapshot>>
    /\ current = 1
    /\ snapshots = <<>>
    /\ decoders = <<>>
    /\ stats = ZeroStats
    /\ wpc = "idle"
    /\ upd = NoUpdate
    /\ reorg = NoReorg
    /\ held = [r \in ReaderIds |-> 0]
    /\ last = NoCall
    /\ dec = NoDecode
    /\ gst = NoStatistics
    /\ validation = NoValidation
    /\ lookup = NoLookup
    /\ hotCache = "cache"

--------------------------------------------------------------------------
(* The operations.  One goroutine (the chain's insertion path) calls       *)
(* Update and HandleReorg; every access of a call to the shared state (an  *)
(* atomic counter, the registry under decoderMu, the history under         *)
(* snapshotMu, the current pointer) is a step of its own, and the calls of *)
(* the other goroutines run between these steps.  wpc is the writer's       *)
(* position:                                                               *)
(*   idle -> lookup <-> read -> store -> publish -> idle | replay          *)
(*   idle -> search -> restore -> replay -> idle, or search -> replay/panic *)

\* the chains a reorg is declared with: segments of at most two headers with
\* consecutive block numbers, and the two whole branches from block 1
Chains ==
    {<<>>} \cup {<<h>> : h \in Headers}
           \cup {c \in {<<h, g>> : h \in Headers, g \in Headers} : c[2].Number = c[1].Number + 1}
           \cup {<<Header(1, "a"), Header(2, b), Header(3, b)>> : b \in Branches}

\* the (address, decoder) pairs the host hands to RegisterDecoder
Registrations == {<<"P", "UniswapV2Decoder">>, <<"Q", "StubDecoder">>}

\* Update that publishes the fresh snapshot before filling it
BeginUpdate_PublishEarly(block, stateDB) ==
    /\ stats' = [stats EXCEPT !.Updates = @ + 1]
    /\ current' = Len(heap) + 1
    /\ heap' = Append(heap, [BlockNumber |-> block.Number, BlockHash |-> block.Hash,
                             BlockTime |-> block.Time, Contracts |-> <<>>])
    /\ upd' = [NoUpdate EXCEPT !.block = block, !.stateDB = stateDB,
                               !.id = Len(heap) + 1, !.todo = watchlist, !.pre = Cache]
    /\ wpc' = IF watchlist = {} THEN "store" ELSE "lookup"

\* Update that walks the decoder registry together with the watchlist
BeginUpdate_AllRegistered(block, stateDB) ==
    /\ stats' = [stats EXCEPT !.Updates = @ + 1]
    /\ current' = current
    /\ heap' = Append(heap, [BlockNumber |-> block.Number, BlockHash |-> block.Hash,
                             BlockTime |-> block.Time, Contracts |-> <<>>])
    /\ upd' = [NoUpdate EXCEPT !.block = block, !.stateDB = stateDB,
                               !.id = Len(heap) + 1,
                               !.todo = watchlist \cup DOMAIN decoders, !.pre = Cache]
    /\ wpc' = IF watchlist \cup DOMAIN decoders = {} THEN "store" ELSE "lookup"

\* Update, lines 41-49: count the update and allocate the fresh snapshot, a
\* local of the call; current is not touched
BeginUpdate(block, stateDB) ==
    /\ stats' = [stats EXCEPT !.Updates = @ + 1]
    /\ current' = current
    /\ heap' = Append(heap, [BlockNumber |-> block.Number, BlockHash |-> block.Hash,
                             BlockTime |-> block.Time, Contracts |-> <<>>])
    /\ upd' = [NoUpdate EXCEPT !.block = block, !.stateDB = stateDB,
                               !.id = Len(heap) + 1, !.todo = watchlist, !.pre = Cache]
    /\ wpc' = IF watchlist = {} THEN "store" ELSE "lookup"

\* Update without the test of config.Enabled
UpdateCall_NoEnabledCheck(block, stateDB) ==
    /\ wpc = "idle"
    /\ stats.Updates < MaxUpdates
    /\ BeginUpdate(block, stateDB)
    /\ UNCHANGED <<hotCache, dec, gst, validation, lookup, config, watchlist, snapshots, decoders, reorg, held, last>>

\* Update is called, lines 37-49: a disabled cache returns at once
UpdateCall(block, stateDB) ==
    /\ wpc = "idle"
    /\ stats.Updates < MaxUpdates
    /\ IF config.Enabled
       THEN BeginUpdate(block, stateDB) /\ UNCHANGED last
       ELSE /\ UNCHANGED <<stats, heap, upd, wpc, current>>
            /\ last' = [NoCall EXCEPT !.op = "Update", !.block = block, !.stateDB = stateDB,
                                      !.pre = Cache]
    /\ UNCHANGED <<hotCache, dec, gst, validation, lookup, config, watchlist, snapshots, decoders, reorg, held>>

\* updateContract, lines 89-92: the next watched address (map order) and the
\* registry lookup under decoderMu; upd.decs keeps what the lookups found
UpdateLookup ==
    /\ wpc = "lookup"
    /\ \E addr \in upd.todo :
          upd' = [upd EXCEPT !.addr = addr,
                             !.hasDecoder = addr \in DOMAIN decoders,
                             !.decoder = IF addr \in DOMAIN decoders THEN decoders[addr]
                                         ELSE "",
                             !.decs = IF addr \in DOMAIN decoders
                                      THEN Put(@, addr, decoders[addr])
                                      ELSE @]
    /\ wpc' = "read"
    /\ UNCHANGED <<hotCache, dec, gst, validation, lookup, config, watchlist, heap, current, snapshots, decoders, stats, reorg,
                   held, last>>

\* UpdateRead that fills the contracts of the current snapshot
UpdateRead_InPlace ==
    /\ wpc = "read"
    /\ \E res \in {updateContractWith(upd.addr, upd.stateDB, upd.hasDecoder, upd.decoder)} :
          heap' = IF res.err = ""
                  THEN [heap EXCEPT ![current].Contracts = Put(@, upd.addr, res.state)]
                  ELSE heap
    /\ upd' = [upd EXCEPT !.todo = @ \ {upd.addr},
                       !.called = @ \/ (upd.hasDecoder /\ RequiredSlots(upd.decoder) # <<>>)]
    /\ wpc' = IF upd.todo = {upd.addr} THEN "store" ELSE "lookup"
    /\ UNCHANGED <<hotCache, dec, gst, validation, lookup, config, watchlist, current, snapshots, decoders, stats, reorg, held,
                   last>>

\* UpdateRead that takes the entry's type from the registry as it is now
UpdateRead_TypeFromRegistry ==
    /\ wpc = "read"
    /\ \E res \in {updateContractWith(upd.addr, upd.stateDB, upd.hasDecoder, upd.decoder)} :
          heap' = IF res.err = ""
                  THEN [heap EXCEPT ![upd.id].Contracts =
                          Put(@, upd.addr,
                              [res.state EXCEPT !.Type =
                                  IF upd.addr \in DOMAIN decoders
                                  THEN DecoderType(decoders[upd.addr])
                                  ELSE ContractTypeUnknown])]
                  ELSE heap
    /\ upd' = [upd EXCEPT !.todo = @ \ {upd.addr},
                       !.called = @ \/ (upd.hasDecoder /\ RequiredSlots(upd.decoder) # <<>>)]
    /\ wpc' = IF upd.todo = {upd.addr} THEN "store" ELSE "lookup"
    /\ UNCHANGED <<hotCache, dec, gst, validation, lookup, config, watchlist, current, snapshots, decoders, stats, reorg,
                   held, last>>

\* UpdateRead that gives up the remaining contracts on the first decode error
UpdateRead_AbortOnError ==
    /\ wpc = "read"
    /\ \E res \in {updateContractWith(upd.addr, upd.stateDB, upd.hasDecoder, upd.decoder)} :
          /\ heap' = IF res.err = ""
                     THEN [heap EXCEPT ![upd.id].Contracts = Put(@, upd.addr, res.state)]
                     ELSE [heap EXCEPT ![upd.id].Contracts = <<>>]
          /\ upd' = [upd EXCEPT !.todo = IF res.err = "" THEN @ \ {upd.addr} ELSE {},
                             !.called = @ \/ (upd.hasDecoder
                                              /\ RequiredSlots(upd.decoder) # <<>>)]
          /\ wpc' = IF upd.todo = {upd.addr} \/ res.err # "" THEN "store" ELSE "lookup"
    /\ UNCHANGED <<hotCache, dec, gst, validation, lookup, config, watchlist, current, snapshots, decoders, stats, reorg,
                   held, last>>

\* updateContract, lines 94-117, and Update, lines 53-61: read and decode the
\* address's slots; on success put the state into the new snapshot
UpdateRead ==
    /\ wpc = "read"
    /\ \E res \in {updateContractWith(upd.addr, upd.stateDB, upd.hasDecoder, upd.decoder)} :
          heap' = IF res.err = ""
                  THEN [heap EXCEPT ![upd.id].Contracts = Put(@, upd.addr, res.state)]
                  ELSE heap
    /\ upd' = [upd EXCEPT !.todo = @ \ {upd.addr},
                       !.called = @ \/ (upd.hasDecoder /\ RequiredSlots(upd.decoder) # <<>>)]
    /\ wpc' = IF upd.todo = {upd.addr} THEN "store" ELSE "lookup"
    /\ UNCHANGED <<hotCache, dec, gst, validation, lookup, config, watchlist, current, snapshots, decoders, stats, reorg, held,
                   last>>

\* Update, lines 64-68: insert into history and clean up, under snapshotMu
UpdateStore ==
    /\ wpc = "store"
    /\ snapshots' = StoreSnapshot(snapshots, heap, upd.block, upd.id)
    /\ wpc' = "publish"
    /\ UNCHANGED <<hotCache, dec, gst, validation, lookup, config, watchlist, heap, current, decoders, stats, upd, reorg, held,
                   last>>

\* Update that publishes a snapshot only when it is above the current block
UpdatePublish_OnlyForward ==
    /\ wpc = "publish"
    /\ current' = IF upd.block.Number > heap[current].BlockNumber THEN upd.id ELSE current
    /\ upd' = NoUpdate
    /\ IF reorg.active
       THEN /\ wpc' = "replay"
            /\ reorg' = [reorg EXCEPT !.called = @ \/ upd.called]
            /\ UNCHANGED last
       ELSE /\ wpc' = "idle"
            /\ reorg' = reorg
            /\ last' = [NoCall EXCEPT !.op = "Update", !.block = upd.block,
                                      !.stateDB = upd.stateDB,
                                      !.readerCalled = upd.called,
                                      !.decs = upd.decs, !.pre = upd.pre]
    /\ UNCHANGED <<hotCache, dec, gst, validation, lookup, config, watchlist, heap, snapshots, decoders, stats, held>>

\* Update, lines 71-78: current.Store(newSnapshot) and return, to the host or
\* to HandleReorg's replay loop
UpdatePublish ==
    /\ wpc = "publish"
    /\ current' = upd.id
    /\ upd' = NoUpdate
    /\ IF reorg.active
       THEN /\ wpc' = "replay"
            /\ reorg' = [reorg EXCEPT !.called = @ \/ upd.called]
            /\ UNCHANGED last
       ELSE /\ wpc' = "idle"
            /\ reorg' = reorg
            /\ last' = [NoCall EXCEPT !.op = "Update", !.block = upd.block,
                                      !.stateDB = upd.stateDB,
                                      !.readerCalled = upd.called,
                                      !.decs = upd.decs, !.pre = upd.pre]
    /\ UNCHANGED <<hotCache, dec, gst, validation, lookup, config, watchlist, heap, snapshots, decoders, stats, held>>

\* the headers of a chain above block number n, in list order
RECURSIVE Above(_, _)
Above(chain, n) ==
    IF chain = <<>> THEN <<>>
    ELSE IF Head(chain).Number <= n THEN Above(Tail(chain), n)
    ELSE <<Head(chain)>> \o Above(Tail(chain), n)

\* HandleReorg that returns at once when there is no old chain to abandon
ReorgCall_SkipEmptyOld(oldChain, newChain, stateDB) ==
    /\ wpc = "idle"
    /\ stats.ReorgCount < MaxCalls
    /\ IF config.Enabled /\ oldChain # <<>>
       THEN /\ stats' = [stats EXCEPT !.ReorgCount = @ + 1]
            /\ wpc' = "search"
            /\ reorg' = [NoReorg EXCEPT !.active = TRUE, !.oldChain = oldChain,
                                        !.newChain = newChain, !.stateDB = stateDB,
                                        !.pre = Cache]
            /\ UNCHANGED last
       ELSE /\ UNCHANGED <<stats, wpc, reorg>>
            /\ last' = [NoCall EXCEPT !.op = "HandleReorg", !.oldChain = oldChain,
                                      !.newChain = newChain, !.stateDB = stateDB,
                                      !.pre = Cache]
    /\ UNCHANGED <<hotCache, dec, gst, validation, lookup, config, watchlist, heap, current, snapshots, decoders, upd,
                   held>>

\* HandleReorg that clears the update counter when it counts the reorg
ReorgCall_ResetUpdates(oldChain, newChain, stateDB) ==
    /\ wpc = "idle"
    /\ stats.ReorgCount < MaxCalls
    /\ IF config.Enabled
       THEN /\ stats' = [stats EXCEPT !.ReorgCount = @ + 1, !.Updates = 0]
            /\ wpc' = "search"
            /\ reorg' = [NoReorg EXCEPT !.active = TRUE, !.oldChain = oldChain,
                                        !.newChain = newChain, !.stateDB = stateDB,
                                        !.pre = Cache]
            /\ UNCHANGED last
       ELSE /\ UNCHANGED <<stats, wpc, reorg>>
            /\ last' = [NoCall EXCEPT !.op = "HandleReorg", !.oldChain = oldChain,
                                      !.newChain = newChain, !.stateDB = stateDB,
                                      !.pre = Cache]
    /\ UNCHANGED <<hotCache, dec, gst, validation, lookup, config, watchlist, heap, current, snapshots, decoders, upd,
                   held>>

\* HandleReorg is called, lines 202-206: a disabled cache returns at once, an
\* enabled one counts the reorg
ReorgCall(oldChain, newChain, stateDB) ==
    /\ wpc = "idle"
    /\ stats.ReorgCount < MaxCalls
    /\ IF config.Enabled
       THEN /\ stats' = [stats EXCEPT !.ReorgCount = @ + 1]
            /\ wpc' = "search"
            /\ reorg' = [NoReorg EXCEPT !.active = TRUE, !.oldChain = oldChain,
                                        !.newChain = newChain, !.stateDB = stateDB,
                                        !.pre = Cache]
            /\ UNCHANGED last
       ELSE /\ UNCHANGED <<stats, wpc, reorg>>
            /\ last' = [NoCall EXCEPT !.op = "HandleReorg", !.oldChain = oldChain,
                                      !.newChain = newChain, !.stateDB = stateDB,
                                      !.pre = Cache]
    /\ UNCHANGED <<hotCache, dec, gst, validation, lookup, config, watchlist, heap, current, snapshots, decoders, upd,
                   held>>

\* ReorgLookup that stores the looked-up snapshot before testing the lookup
ReorgLookup_StoreBeforeCheck ==
    /\ wpc = "search"
    /\ \E commonHash \in {FindCommon(reorg.oldChain, reorg.newChain, Len(reorg.oldChain))} :
          IF commonHash \notin DOMAIN snapshots
          THEN /\ current' = 0
               /\ IF reorg.newChain = <<>>
                  THEN /\ wpc' = "panic"
                       /\ reorg' = NoReorg
                       /\ last' = [NoCall EXCEPT !.op = "HandleReorg",
                                                 !.oldChain = reorg.oldChain,
                                                 !.newChain = reorg.newChain,
                                                 !.stateDB = reorg.stateDB,
                                                 !.ret = "panic", !.pre = reorg.pre]
                  ELSE /\ wpc' = "replay"
                       /\ reorg' = [reorg EXCEPT
                                       !.rest = <<reorg.newChain[Len(reorg.newChain)]>>]
                       /\ UNCHANGED last
          ELSE /\ current' = snapshots[commonHash]
               /\ wpc' = "restore"
               /\ reorg' = [reorg EXCEPT !.commonHash = commonHash,
                                         !.commonSnapshot = snapshots[commonHash]]
               /\ UNCHANGED last
    /\ UNCHANGED <<hotCache, dec, gst, validation, lookup, config, watchlist, heap, snapshots, decoders, stats, upd,
                   held>>

\* ReorgLookup that replays the whole new chain when the ancestor is not in
\* history
ReorgLookup_ReplayAll ==
    /\ wpc = "search"
    /\ \E commonHash \in {FindCommon(reorg.oldChain, reorg.newChain, Len(reorg.oldChain))} :
          IF commonHash \notin DOMAIN snapshots
          THEN IF reorg.newChain = <<>>
               THEN /\ wpc' = "panic"
                    /\ reorg' = NoReorg
                    /\ last' = [NoCall EXCEPT !.op = "HandleReorg",
                                              !.oldChain = reorg.oldChain,
                                              !.newChain = reorg.newChain,
                                              !.stateDB = reorg.stateDB,
                                              !.ret = "panic", !.pre = reorg.pre]
               ELSE /\ wpc' = "replay"
                    /\ reorg' = [reorg EXCEPT !.commonHash = commonHash,
                                              !.rest = reorg.newChain]
                    /\ UNCHANGED last
          ELSE /\ wpc' = "restore"
               /\ reorg' = [reorg EXCEPT !.commonHash = commonHash,
                                         !.commonSnapshot = snapshots[commonHash]]
               /\ UNCHANGED last
    /\ UNCHANGED <<hotCache, dec, gst, validation, lookup, config, watchlist, heap, current, snapshots, decoders, stats,
                   upd, held>>

\* HandleReorg, lines 212-236: search the common hash and look it up in
\* history under snapshotMu; when it is not there fall back to an Update of
\* the new chain's last header, newChain[len(newChain)-1], which panics on an
\* empty new chain
ReorgLookup ==
    /\ wpc = "search"
    /\ \E commonHash \in {FindCommon(reorg.oldChain, reorg.newChain, Len(reorg.oldChain))} :
          IF commonHash \notin DOMAIN snapshots
          THEN IF reorg.newChain = <<>>
               THEN /\ wpc' = "panic"
                    /\ reorg' = NoReorg
                    /\ last' = [NoCall EXCEPT !.op = "HandleReorg",
                                              !.oldChain = reorg.oldChain,
                                              !.newChain = reorg.newChain,
                                              !.stateDB = reorg.stateDB,
                                              !.ret = "panic", !.pre = reorg.pre]
               ELSE /\ wpc' = "replay"
                    /\ reorg' = [reorg EXCEPT
                                    !.commonHash = commonHash,
                                    !.rest = <<reorg.newChain[Len(reorg.newChain)]>>]
                    /\ UNCHANGED last
          ELSE /\ wpc' = "restore"
               /\ reorg' = [reorg EXCEPT !.commonHash = commonHash,
                                         !.commonSnapshot = snapshots[commonHash]]
               /\ UNCHANGED last
    /\ UNCHANGED <<hotCache, dec, gst, validation, lookup, config, watchlist, heap, current, snapshots, decoders, stats,
                   upd, held>>

\* HandleReorg, lines 238-243: current.Store(commonSnapshot); the headers
\* above the ancestor's block number are left to replay
ReorgRestore ==
    /\ wpc = "restore"
    /\ current' = reorg.commonSnapshot
    /\ reorg' = [reorg EXCEPT !.rest = Above(reorg.newChain,
                                             heap[reorg.commonSnapshot].BlockNumber)]
    /\ wpc' = "replay"
    /\ UNCHANGED <<hotCache, dec, gst, validation, lookup, config, watchlist, heap, snapshots, decoders, stats, upd,
                   held, last>>

\* ReorgReplay that counts a reorg for every header it replays
ReorgReplay_CountEach ==
    /\ wpc = "replay"
    /\ IF reorg.rest = <<>>
       THEN /\ wpc' = "idle"
            /\ reorg' = NoReorg
            /\ last' = [NoCall EXCEPT !.op = "HandleReorg", !.oldChain = reorg.oldChain,
                                      !.newChain = reorg.newChain,
                                      !.stateDB = reorg.stateDB,
                                      !.readerCalled = reorg.called, !.pre = reorg.pre]
            /\ UNCHANGED <<stats, heap, upd, current>>
       ELSE /\ wpc' = IF watchlist = {} THEN "store" ELSE "lookup"
            /\ stats' = [stats EXCEPT !.Updates = @ + 1, !.ReorgCount = @ + 1]
            /\ current' = current
            /\ heap' = Append(heap, [BlockNumber |-> Head(reorg.rest).Number,
                                     BlockHash |-> Head(reorg.rest).Hash,
                                     BlockTime |-> Head(reorg.rest).Time,
                                     Contracts |-> <<>>])
            /\ upd' = [NoUpdate EXCEPT !.block = Head(reorg.rest),
                                       !.stateDB = reorg.stateDB,
                                       !.id = Len(heap) + 1, !.todo = watchlist,
                                       !.pre = Cache]
            /\ reorg' = [reorg EXCEPT !.rest = Tail(@)]
            /\ UNCHANGED last
    /\ UNCHANGED <<hotCache, dec, gst, validation, lookup, config, watchlist, snapshots, decoders, held>>

\* HandleReorg, lines 235 and 246-259: the next header handed to Update (an
\* enabled cache: the call begins at once), or the return
ReorgReplay ==
    /\ wpc = "replay"
    /\ IF reorg.rest = <<>>
       THEN /\ wpc' = "idle"
            /\ reorg' = NoReorg
            /\ last' = [NoCall EXCEPT !.op = "HandleReorg", !.oldChain = reorg.oldChain,
                                      !.newChain = reorg.newChain,
                                      !.stateDB = reorg.stateDB,
                                      !.readerCalled = reorg.called, !.pre = reorg.pre]
            /\ UNCHANGED <<stats, heap, upd, current>>
       ELSE /\ BeginUpdate(Head(reorg.rest), reorg.stateDB)
            /\ reorg' = [reorg EXCEPT !.rest = Tail(@)]
            /\ UNCHANGED last
    /\ UNCHANGED <<hotCache, dec, gst, validation, lookup, config, watchlist, snapshots, decoders, held>>

\* Cache.RegisterDecoder(addr, decoder)
RegisterDecoder(addr, decoder) ==
    /\ wpc # "panic"
    /\ decoders' = Put(decoders, addr, decoder)
    /\ last' = [NoCall EXCEPT !.op = "RegisterDecoder", !.addr = addr]
    /\ UNCHANGED <<hotCache, dec, gst, validation, lookup, config, watchlist, heap, current, snapshots, stats, wpc, upd, reorg,
                   held>>

\* Cache.GetSnapshot, by reader r
GetSnapshot(r) ==
    /\ wpc # "panic"
    /\ held' = [held EXCEPT ![r] = current]
    /\ UNCHANGED <<hotCache, dec, gst, validation, lookup, config, watchlist, heap, current, snapshots, decoders, stats, wpc,
                   upd, reorg, last>>

\* GetContractState after the load, on cache statistics st and the snapshot
\* loaded: the state found in the snapshot, the error, and the statistics with
\* the hit or the miss counted
GetContractStateC_AlwaysHit(st, snapshot, addr) ==
    IF addr \in DOMAIN snapshot.Contracts
    THEN [val |-> snapshot.Contracts[addr], ret |-> "nil",
          stats |-> [st EXCEPT !.Hits = @ + 1]]
    ELSE [val |-> Nil, ret |-> "ErrNotFound", stats |-> [st EXCEPT !.Hits = @ + 1]]

GetContractStateC(st, snapshot, addr) ==
    IF addr \in DOMAIN snapshot.Contracts
    THEN [val |-> snapshot.Contracts[addr], ret |-> "nil",
          stats |-> [st EXCEPT !.Hits = @ + 1]]
    ELSE [val |-> Nil, ret |-> "ErrNotFound", stats |-> [st EXCEPT !.Misses = @ + 1]]

\* the GetContractState call that begins, for operation op: the load of the
\* current snapshot
BeginLookup(op, addr, slot) ==
    [NoLookup EXCEPT !.pc = "count", !.op = op, !.addr = addr, !.slot = slot,
                     !.snap = current]

\* Cache.GetContractState(addr) is called: GetSnapshot
GetContractState(addr) ==
    /\ wpc # "panic"
    /\ lookup.pc = "idle"
    /\ stats.Hits + stats.Misses + stats.ValidationErrors < MaxCalls
    /\ lookup' = BeginLookup("GetContractState", addr, 0)
    /\ UNCHANGED <<hotCache, dec, gst, validation, config, watchlist, heap, current,
                   snapshots, decoders, stats, wpc, upd, reorg, held, last>>

\* the slots callers ask GetRawSlot for: the reserves slot the pool's decoder
\* reads, and a slot no decoder reads
RawSlotInputs == {uniswapV2SlotReserves, uniswapV2SlotKLast + 1}

\* one hexadecimal digit
HexDigit(n) ==
    <<"0", "1", "2", "3", "4", "5", "6", "7", "8", "9", "a", "b", "c", "d", "e", "f">>[n + 1]

\* common.Hash.Hex of a slot number below 256: 0x and 64 hexadecimal digits
SlotHex(slot) ==
    "0x00000000000000000000000000000000000000000000000000000000000000"
        \o HexDigit(slot \div 16) \o HexDigit(slot % 16)

\* Cache.GetRawSlot(addr, slot) after its GetContractState returned got: the
\* error, or the slot of the state's RawSlots; the zero hash comes with every
\* error
RawSlotOf(got, slot) ==
    [ret |-> IF got.ret # "nil" THEN got.ret
             ELSE IF slot \notin DOMAIN got.val.RawSlots
             THEN "slot " \o SlotHex(slot) \o " not found"
             ELSE "nil",
     val |-> IF got.ret = "nil" /\ slot \in DOMAIN got.val.RawSlots
             THEN got.val.RawSlots[slot]
             ELSE ZeroWord]

\* BlockChain.GetHotCachedContractState after its GetContractState returned
\* got: ErrNotFound becomes ErrHotCacheNotFound
HotCachedContractStateOf(got) ==
    IF got.ret = "ErrNotFound"
    THEN [ret |-> "ErrHotCacheNotFound", val |-> Nil]
    ELSE [ret |-> got.ret, val |-> got.val]

\* BlockChain.GetHotCachedUniswapV2State after its GetHotCachedContractState
\* returned res: the contract state narrowed to the Uniswap-V2 record
HotCachedUniswapV2StateOf(res) ==
    [ret |-> IF res.ret # "nil" THEN res.ret
             ELSE IF res.val.Type # ContractTypeUniswapV2
             THEN "contract is not a Uniswap V2 pool"
             ELSE IF res.val.Decoded = Nil
             THEN "contract state not decoded"
             ELSE IF res.val.Decoded.kind # "UniswapV2State"
             THEN "failed to cast to Uniswap V2 state"
             ELSE "nil",
     val |-> IF /\ res.ret = "nil"
                /\ res.val.Type = ContractTypeUniswapV2
                /\ res.val.Decoded # Nil
                /\ res.val.Decoded.kind = "UniswapV2State"
             THEN res.val.Decoded
             ELSE Nil]

\* what the operation that called GetContractState returns when that
\* returned got
LookupResult(op, slot, got) ==
    CASE op = "GetRawSlot" -> RawSlotOf(got, slot)
      [] op = "GetHotCachedContractState" -> HotCachedContractStateOf(got)
      [] op = "GetHotCachedUniswapV2State" ->
            HotCachedUniswapV2StateOf(HotCachedContractStateOf(got))
      [] OTHER -> [ret |-> got.ret, val |-> got.val]

\* Cache.GetRawSlot(addr, slot) is called: GetContractState's load
GetRawSlot(addr, slot) ==
    /\ wpc # "panic"
    /\ lookup.pc = "idle"
    /\ stats.Hits + stats.Misses + stats.ValidationErrors < MaxCalls
    /\ lookup' = BeginLookup("GetRawSlot", addr, slot)
    /\ UNCHANGED <<hotCache, dec, gst, validation, config, watchlist, heap, current,
                   snapshots, decoders, stats, wpc, upd, reorg, held, last>>

\* Cache.GetContractState after the load: the search of the loaded snapshot,
\* Misses.Add(1) or Hits.Add(1), and the return, through the operation that
\* called it
GetContractStateCount ==
    /\ wpc # "panic"
    /\ lookup.pc = "count"
    /\ \E got \in {GetContractStateC(stats, heap[lookup.snap], lookup.addr)} :
          /\ stats' = got.stats
          /\ \E res \in {LookupResult(lookup.op, lookup.slot, got)} :
                last' = [NoCall EXCEPT !.op = lookup.op, !.addr = lookup.addr,
                                       !.slot = lookup.slot, !.ret = res.ret,
                                       !.val = res.val, !.snap = lookup.snap]
    /\ lookup' = NoLookup
    /\ UNCHANGED <<hotCache, dec, gst, validation, config, watchlist, heap, current,
                   snapshots, decoders, wpc, upd, reorg, held>>

\* the inner loop of Validate and the loop of ValidateContract: some slot
\* cached for addr differs from the value the reader returns for it
SlotDiffers(cachedState, stateDB, addr) ==
    \E slot \in DOMAIN cachedState.RawSlots :
        cachedState.RawSlots[slot] # GetState(stateDB, addr, slot)

\* the call that begins: its inputs and the snapshot current now
BeginValidation(op, addr, stateDB) ==
    [NoValidation EXCEPT !.pc = "read", !.op = op, !.addr = addr, !.stateDB = stateDB,
                         !.snap = current]

\* Cache.Validate(stateDB) is called: the ShadowMode test, which ends the
\* call when it is off, and the load of the current snapshot
Validate(stateDB) ==
    /\ wpc # "panic"
    /\ validation.pc = "idle"
    /\ stats.Hits + stats.Misses + stats.ValidationErrors < MaxCalls
    /\ IF ~config.ShadowMode
       THEN /\ last' = [NoCall EXCEPT !.op = "Validate", !.stateDB = stateDB]
            /\ validation' = validation
       ELSE /\ validation' = [BeginValidation("Validate", "", stateDB) EXCEPT
                                 !.todo = DOMAIN heap[current].Contracts]
            /\ last' = last
    /\ UNCHANGED <<hotCache, dec, gst, lookup, config, watchlist, heap, current, snapshots, decoders,
                   stats, wpc, upd, reorg, held>>

\* Validate that stops after the first contract it compared
ValidateRead_FirstOnly ==
    /\ wpc # "panic"
    /\ validation.pc = "read" /\ validation.op = "Validate"
    /\ IF validation.todo = {}
       THEN /\ last' = [NoCall EXCEPT !.op = "Validate", !.stateDB = validation.stateDB,
                                      !.readerCalled = validation.called,
                                      !.snap = validation.snap]
            /\ validation' = NoValidation
       ELSE /\ \E addr \in validation.todo :
                 \E cachedState \in {heap[validation.snap].Contracts[addr]} :
                    validation' =
                       [validation EXCEPT
                          !.called = @ \/ cachedState.RawSlots # <<>>,
                          !.todo = {},
                          !.pc = IF SlotDiffers(cachedState, validation.stateDB, addr)
                                 THEN "count" ELSE "read"]
            /\ last' = last
    /\ UNCHANGED <<hotCache, dec, gst, lookup, config, watchlist, heap, current, snapshots, decoders,
                   stats, wpc, upd, reorg, held>>

\* Validate's loop over the contracts of the snapshot it loaded, in the
\* order the map's iteration gives: the state reader is asked for the slots of
\* one contract and the first differing slot leads to the count; with no
\* contract left the call returns nil
ValidateRead ==
    /\ wpc # "panic"
    /\ validation.pc = "read" /\ validation.op = "Validate"
    /\ IF validation.todo = {}
       THEN /\ last' = [NoCall EXCEPT !.op = "Validate", !.stateDB = validation.stateDB,
                                      !.readerCalled = validation.called,
                                      !.snap = validation.snap]
            /\ validation' = NoValidation
       ELSE /\ \E addr \in validation.todo :
                 \E cachedState \in {heap[validation.snap].Contracts[addr]} :
                    validation' =
                       [validation EXCEPT
                          !.called = @ \/ cachedState.RawSlots # <<>>,
                          !.todo = @ \ {addr},
                          !.pc = IF SlotDiffers(cachedState, validation.stateDB, addr)
                                 THEN "count" ELSE "read"]
            /\ last' = last
    /\ UNCHANGED <<hotCache, dec, gst, lookup, config, watchlist, heap, current, snapshots, decoders,
                   stats, wpc, upd, reorg, held>>

\* Validate after a differing slot: ValidationErrors.Add(1) and the return of
\* ErrInconsistentState
ValidateCount ==
    /\ wpc # "panic"
    /\ validation.pc = "count" /\ validation.op = "Validate"
    /\ stats' = [stats EXCEPT !.ValidationErrors = @ + 1]
    /\ last' = [NoCall EXCEPT !.op = "Validate", !.stateDB = validation.stateDB,
                              !.ret = "ErrInconsistentState",
                              !.readerCalled = validation.called,
                              !.snap = validation.snap]
    /\ validation' = NoValidation
    /\ UNCHANGED <<hotCache, dec, gst, lookup, config, watchlist, heap, current, snapshots, decoders,
                   wpc, upd, reorg, held>>

\* ValidateContract that looks the contract up before testing ShadowMode
ValidateContract_LookupFirst(addr, stateDB) ==
    /\ wpc # "panic"
    /\ validation.pc = "idle"
    /\ stats.Hits + stats.Misses + stats.ValidationErrors < MaxCalls
    /\ validation' = [BeginValidation("ValidateContract", addr, stateDB) EXCEPT
                         !.pc = "lookup"]
    /\ last' = last
    /\ UNCHANGED <<hotCache, dec, gst, lookup, config, watchlist, heap, current, snapshots,
                   decoders, stats, wpc, upd, reorg, held>>

\* Cache.ValidateContract(addr, stateDB) is called: the ShadowMode test, which
\* ends the call when it is off, and the load of the current snapshot in
\* GetContractState
ValidateContract(addr, stateDB) ==
    /\ wpc # "panic"
    /\ validation.pc = "idle"
    /\ stats.Hits + stats.Misses + stats.ValidationErrors < MaxCalls
    /\ IF ~config.ShadowMode
       THEN /\ last' = [NoCall EXCEPT !.op = "ValidateContract", !.addr = addr,
                                      !.stateDB = stateDB]
            /\ validation' = validation
       ELSE /\ validation' = [BeginValidation("ValidateContract", addr, stateDB) EXCEPT
                                 !.pc = "lookup"]
            /\ last' = last
    /\ UNCHANGED <<hotCache, dec, gst, lookup, config, watchlist, heap, current, snapshots,
                   decoders, stats, wpc, upd, reorg, held>>

\* ValidateContract's GetContractState after the load: the search of the
\* loaded snapshot and Misses.Add(1) or Hits.Add(1); the error ends the call
ValidateContractLookup ==
    /\ wpc # "panic"
    /\ validation.pc = "lookup" /\ validation.op = "ValidateContract"
    /\ \E got \in {GetContractStateC(stats, heap[validation.snap], validation.addr)} :
          /\ stats' = got.stats
          /\ IF got.ret # "nil"
             THEN /\ last' = [NoCall EXCEPT !.op = "ValidateContract",
                                            !.addr = validation.addr,
                                            !.stateDB = validation.stateDB,
                                            !.ret = got.ret, !.snap = validation.snap]
                  /\ validation' = NoValidation
             ELSE /\ validation' = [validation EXCEPT !.pc = "read"]
                  /\ last' = last
    /\ UNCHANGED <<hotCache, dec, gst, lookup, config, watchlist, heap, current, snapshots,
                   decoders, wpc, upd, reorg, held>>

\* ValidateContract's loop over the slots of the state it looked up: the state
\* reader is asked for them and the first differing slot leads to the count;
\* with none the call returns nil
ValidateContractRead ==
    /\ wpc # "panic"
    /\ validation.pc = "read" /\ validation.op = "ValidateContract"
    /\ \E cachedState \in {heap[validation.snap].Contracts[validation.addr]} :
          IF SlotDiffers(cachedState, validation.stateDB, validation.addr)
          THEN /\ validation' = [validation EXCEPT !.pc = "count", !.called = TRUE]
               /\ last' = last
          ELSE /\ last' = [NoCall EXCEPT !.op = "ValidateContract",
                                         !.addr = validation.addr,
                                         !.stateDB = validation.stateDB,
                                         !.readerCalled = cachedState.RawSlots # <<>>,
                                         !.snap = validation.snap]
               /\ validation' = NoValidation
    /\ UNCHANGED <<hotCache, dec, gst, lookup, config, watchlist, heap, current, snapshots, decoders,
                   stats, wpc, upd, reorg, held>>

\* ValidateContract after a differing slot: ValidationErrors.Add(1) and the
\* return of ErrInconsistentState
ValidateContractCount ==
    /\ wpc # "panic"
    /\ validation.pc = "count" /\ validation.op = "ValidateContract"
    /\ stats' = [stats EXCEPT !.ValidationErrors = @ + 1]
    /\ last' = [NoCall EXCEPT !.op = "ValidateContract", !.addr = validation.addr,
                              !.stateDB = validation.stateDB,
                              !.ret = "ErrInconsistentState", !.readerCalled = TRUE,
                              !.snap = validation.snap]
    /\ validation' = NoValidation
    /\ UNCHANGED <<hotCache, dec, gst, lookup, config, watchlist, heap, current, snapshots, decoders,
                   wpc, upd, reorg, held>>

Next ==
    \/ \E block \in Headers : UpdateCall(block, StateAt(block))
    \/ UpdateLookup
    \/ UpdateRead
    \/ UpdateStore
    \/ UpdatePublish
    \/ \E reg \in Registrations : RegisterDecoder(reg[1], reg[2])
    \/ \E addr \in Addrs : GetContractState(addr)
    \/ \E addr \in Addrs, slot \in RawSlotInputs : GetRawSlot(addr, slot)
    \/ GetContractStateCount

Spec == Init /\ [][Next]_vars

\* the registry of a host that registers, through RegisterDecoder right after
\* New, the pool's decoder for P and a decoder of its own for Q
HostDecoders == [a \in {"P", "Q"} |-> IF a = "P" THEN "UniswapV2Decoder" ELSE "StubDecoder"]

\* an enabled cache watching P and Q, its decoders registered, on which the
\* host also declares reorgs
InitReorg ==
    /\ config \in {[Enabled |-> TRUE, ShadowMode |-> TRUE, MaxSnapshots |-> m] : m \in {1, 2}}
    /\ watchlist = {"P", "Q"}
    /\ heap = <<InitialSnapshot>>
    /\ current = 1
    /\ snapshots = <<>>
    /\ decoders = HostDecoders
    /\ stats = ZeroStats
    /\ wpc = "idle"
    /\ upd = NoUpdate
    /\ reorg = NoReorg
    /\ held = [r \in ReaderIds |-> 0]
    /\ last = NoCall
    /\ dec = NoDecode
    /\ gst = NoStatistics
    /\ validation = NoValidation
    /\ lookup = NoLookup
    /\ hotCache = "cache"

\* the state the host hands to HandleReorg: that of the new chain's head
ReorgState(newChain) ==
    IF newChain = <<>> THEN "r1" ELSE StateAt(newChain[Len(newChain)])

NextReorg ==
    \/ \E block \in Headers : UpdateCall(block, StateAt(block))
    \/ UpdateLookup
    \/ UpdateRead
    \/ UpdateStore
    \/ UpdatePublish
    \/ \E oldChain \in Chains, newChain \in Chains :
          ReorgCall(oldChain, newChain, ReorgState(newChain))
    \/ ReorgLookup
    \/ ReorgRestore
    \/ ReorgReplay

SpecReorg == InitReorg /\ [][NextReorg]_vars

\* a disabled cache (the default) with a watchlist and registered decoders,
\* on which the host still calls Update and HandleReorg
InitDisabled ==
    /\ config \in {[Enabled |-> FALSE, ShadowMode |-> sh, MaxSnapshots |-> 1] :
                      sh \in BOOLEAN}
    /\ watchlist = {"P", "Q"}
    /\ heap = <<InitialSnapshot>>
    /\ current = 1
    /\ snapshots = <<>>
    /\ decoders = HostDecoders
    /\ stats = ZeroStats
    /\ wpc = "idle"
    /\ upd = NoUpdate
    /\ reorg = NoReorg
    /\ held = [r \in ReaderIds |-> 0]
    /\ last = NoCall
    /\ dec = NoDecode
    /\ gst = NoStatistics
    /\ validation = NoValidation
    /\ lookup = NoLookup
    /\ hotCache = "cache"

NextDisabled ==
    \/ \E block \in Headers, stateDB \in Readers : UpdateCall(block, stateDB)
    \/ \E oldChain \in Chains, newChain \in Chains :
          ReorgCall(oldChain, newChain, ReorgState(newChain))
    \/ \E addr \in Addrs : GetContractState(addr)
    \/ GetContractStateCount
    \/ \E stateDB \in Readers : Validate(stateDB)
    \/ ValidateRead

SpecDisabled == InitDisabled /\ [][NextDisabled]_vars

--------------------------------------------------------------------------
(* UniswapV2Decoder.Decode called directly on a packed reserves word, as   *)
(* TestUniswapV2Decode does                                                *)

\* left-pad a big-endian byte string to n bytes
Pad(x, n) == Zeros(n - Len(x)) \o x

\* big.Int.Lsh(x, 8 * n)
LshBytes(x, n) == IF x = <<>> THEN <<>> ELSE x \o Zeros(n)

\* bitwise or of two bytes
RECURSIVE OrByte(_, _)
OrByte(a, b) ==
    IF a = 0 THEN b
    ELSE IF b = 0 THEN a
    ELSE (IF a % 2 = 1 \/ b % 2 = 1 THEN 1 ELSE 0) + 2 * OrByte(a \div 2, b \div 2)

\* big.Int.Or(x, y)
OrBytes(x, y) ==
    LET n == IF Len(x) > Len(y) THEN Len(x) ELSE Len(y)
    IN SetBytes([i \in 1..n |-> OrByte(Pad(x, n)[i], Pad(y, n)[i])])

\* the test's packing: reserve0 | reserve1 << 112 | timestamp << 224
PackReserves(reserve0, reserve1, ts) ==
    OrBytes(OrBytes(reserve0, LshBytes(reserve1, 14)), LshBytes(ts, 28))

\* the slot map the test hands to Decode
PackedSlots(reserve0, reserve1, ts) ==
    [s \in Range(UniswapV2RequiredSlots) |->
        IF s = uniswapV2SlotToken0 THEN BytesToHash(USDC)
        ELSE IF s = uniswapV2SlotToken1 THEN BytesToHash(WETH)
        ELSE IF s = uniswapV2SlotReserves
        THEN BytesToHash(PackReserves(reserve0, reserve1, ts))
        ELSE IF s = uniswapV2SlotPrice0Cumulative THEN BytesToHash(<<1, 226, 64>>)
        ELSE IF s = uniswapV2SlotPrice1Cumulative THEN BytesToHash(<<12, 10, 20>>)
        ELSE BytesToHash(<<15, 66, 63>>)]

\* reserves below 2^112: 0, 1, 500, 1000000, 2^104, 2^111, 2^112 - 1
ReserveInputs ==
    { <<>>, <<1>>, <<1, 244>>, <<15, 66, 64>>, <<1>> \o Zeros(13), <<128>> \o Zeros(13),
      [i \in 1..14 |-> 255] }

\* timestamps below 2^32: 0, 1, 1234567890, 2^32 - 1
TimestampInputs == { <<>>, <<1>>, <<73, 150, 2, 210>>, <<255, 255, 255, 255>> }

InitDecode ==
    /\ config = [Enabled |-> DefaultConfig.Enabled, ShadowMode |-> DefaultConfig.ShadowMode,
                 MaxSnapshots |-> NewConfig(DefaultConfig).MaxSnapshots]
    /\ watchlist = DefaultConfig.Watchlist
    /\ heap = <<InitialSnapshot>>
    /\ current = 1
    /\ snapshots = <<>>
    /\ decoders = <<>>
    /\ stats = ZeroStats
    /\ wpc = "idle"
    /\ upd = NoUpdate
    /\ reorg = NoReorg
    /\ held = [r \in ReaderIds |-> 0]
    /\ last = NoCall
    /\ dec \in {[NoDecode EXCEPT !.reserve0 = a, !.reserve1 = b, !.ts = t, !.pc = "input"] :
                   a \in ReserveInputs, b \in ReserveInputs, t \in TimestampInputs}
    /\ hotCache = "cache"
    /\ gst = NoStatistics
    /\ validation = NoValidation
    /\ lookup = NoLookup

\* the test packs the reserves and builds the slot map
DecodePack ==
    /\ dec.pc = "input"
    /\ dec' = [dec EXCEPT !.slots = PackedSlots(dec.reserve0, dec.reserve1, dec.ts),
                          !.pc = "packed"]
    /\ UNCHANGED <<hotCache, gst, validation, lookup, config, watchlist, heap, current, snapshots, decoders, stats, wpc,
                   upd,
                   reorg, held, last>>

\* decoder.Decode(slots)
DecodeCall ==
    /\ dec.pc = "packed"
    /\ \E res \in {UniswapV2Decode(dec.slots)} :
          dec' = [dec EXCEPT !.err = res.err, !.state = res.state, !.pc = "done"]
    /\ UNCHANGED <<hotCache, gst, validation, lookup, config, watchlist, heap, current, snapshots, decoders, stats, wpc,
                   upd,
                   reorg, held, last>>

NextDecode ==
    \/ DecodePack
    \/ DecodeCall

SpecDecode == InitDecode /\ [][NextDecode]_vars

--------------------------------------------------------------------------
(* The writer among concurrent readers and concurrent registrations *)

\* the reorgs declared while readers run, one for each path of HandleReorg:
\* an empty new chain, branches listed above their fork block, and branches
\* listed from their fork block
ConcReorgs ==
    { <<<<>>, <<>>>>,
      <<<<Header(2, "a")>>, <<Header(2, "b"), Header(3, "b")>>>>,
      <<<<Header(1, "a"), Header(2, "a")>>, <<Header(1, "a"), Header(2, "b")>>>>,
      <<<<Header(1, "a"), Header(2, "a"), Header(3, "a")>>,
        <<Header(1, "a"), Header(2, "b"), Header(3, "b")>>>> }

\* the pool's decoder is registered; the host registers the second decoder
\* while the writer and the readers run
InitConc ==
    /\ config \in {[Enabled |-> TRUE, ShadowMode |-> TRUE, MaxSnapshots |-> m] : m \in {1, 2}}
    /\ watchlist = {"P", "Q"}
    /\ heap = <<InitialSnapshot>>
    /\ current = 1
    /\ snapshots = <<>>
    /\ decoders = [a \in {"P"} |-> "UniswapV2Decoder"]
    /\ stats = ZeroStats
    /\ wpc = "idle"
    /\ upd = NoUpdate
    /\ reorg = NoReorg
    /\ held = [r \in ReaderIds |-> 0]
    /\ last = NoCall
    /\ dec = NoDecode
    /\ gst = NoStatistics
    /\ validation = NoValidation
    /\ lookup = NoLookup
    /\ hotCache = "cache"

NextConc ==
    \/ \E block \in Headers : UpdateCall(block, StateAt(block))
    \/ UpdateLookup
    \/ UpdateRead
    \/ UpdateStore
    \/ UpdatePublish
    \/ \E p \in ConcReorgs : ReorgCall(p[1], p[2], ReorgState(p[2]))
    \/ ReorgLookup
    \/ ReorgRestore
    \/ ReorgReplay
    \/ RegisterDecoder("Q", "StubDecoder")
    \/ \E r \in ReaderIds : GetSnapshot(r)

SpecConc == InitConc /\ [][NextConc]_vars

\* a cache that watches P and Q, with ShadowMode on or off, whose host
\* validates while the writer runs
InitValidate ==
    /\ config \in {[Enabled |-> TRUE, ShadowMode |-> sh, MaxSnapshots |-> 2] :
                      sh \in BOOLEAN}
    /\ watchlist = {"P", "Q"}
    /\ heap = <<InitialSnapshot>>
    /\ current = 1
    /\ snapshots = <<>>
    /\ decoders \in {HostDecoders, [a \in {"P"} |-> HostDecoders[a]]}
    /\ stats = ZeroStats
    /\ wpc = "idle"
    /\ upd = NoUpdate
    /\ reorg = NoReorg
    /\ held = [r \in ReaderIds |-> 0]
    /\ last = NoCall
    /\ dec = NoDecode
    /\ gst = NoStatistics
    /\ validation = NoValidation
    /\ lookup = NoLookup
    /\ hotCache = "cache"

NextValidate ==
    \/ \E block \in Headers : UpdateCall(block, StateAt(block))
    \/ UpdateLookup
    \/ UpdateRead
    \/ UpdateStore
    \/ UpdatePublish
    \/ \E stateDB \in Readers : Validate(stateDB)
    \/ ValidateRead
    \/ ValidateCount
    \/ \E addr \in Addrs, stateDB \in Readers : ValidateContract(addr, stateDB)
    \/ ValidateContractLookup
    \/ ValidateContractRead
    \/ ValidateContractCount

SpecValidate == InitValidate /\ [][NextValidate]_vars

\* the canonical state the host validates against while the chain
\* reorganises: the state of branch b
CountersReaders == {"r2"}

\* the writer and every operation that counts, interleaved: the host's
\* readers and validators make one call at a time, at any step of the writer
NextCounters ==
    \/ \E block \in Headers : UpdateCall(block, StateAt(block))
    \/ UpdateLookup
    \/ UpdateRead
    \/ UpdateStore
    \/ UpdatePublish
    \/ \E p \in ConcReorgs : ReorgCall(p[1], p[2], ReorgState(p[2]))
    \/ ReorgLookup
    \/ ReorgRestore
    \/ ReorgReplay
    \/ /\ validation.pc = "idle"
       /\ \E addr \in Addrs : GetContractState(addr)
    \/ /\ validation.pc = "idle"
       /\ \E addr \in Addrs, slot \in RawSlotInputs : GetRawSlot(addr, slot)
    \/ GetContractStateCount
    \/ /\ lookup.pc = "idle"
       /\ \E stateDB \in CountersReaders : Validate(stateDB)
    \/ ValidateRead
    \/ ValidateCount
    \/ /\ lookup.pc = "idle"
       /\ \E addr \in Addrs, stateDB \in CountersReaders : ValidateContract(addr, stateDB)
    \/ ValidateContractLookup
    \/ ValidateContractRead
    \/ ValidateContractCount

SpecCounters == InitReorg /\ [][NextCounters]_vars

--------------------------------------------------------------------------
(* Update: what a returned call leaves *)

\* Update has returned and the writer has not been called since
UpdateReturned == last.op = "Update" /\ wpc = "idle"

\* HandleReorg has returned, or ended in a panic, and the writer has not been
\* called since
ReorgReturned == last.op = "HandleReorg" /\ wpc \in {"idle", "panic"}

\* the raw slots updateContract reads for address a with decoder d from reader r
ExpectedRaw(a, d, r) == [s \in Range(RequiredSlots(d)) |-> GetState(r, a, s)]

\* C1: after Update(h, r) returns on an enabled cache the current snapshot
\* carries h's number, hash and time, and every watched address with a
\* registered decoder (the one the call found in the registry) whose decode
\* succeeds is in it with exactly the required slots, each read from r, and
\* the decoder's result.
C1_UpdatePost ==
    (UpdateReturned /\ config.Enabled) =>
        LET S == heap[current] IN
        /\ S.BlockNumber = last.block.Number
        /\ S.BlockHash = last.block.Hash
        /\ S.BlockTime = last.block.Time
        /\ \A a \in watchlist \cap DOMAIN last.decs :
              LET raw == ExpectedRaw(a, last.decs[a], last.stateDB)
                  res == Decode(last.decs[a], raw)
              IN res.err = "" =>
                    /\ a \in DOMAIN S.Contracts
                    /\ DOMAIN S.Contracts[a].RawSlots = Range(RequiredSlots(last.decs[a]))
                    /\ S.Contracts[a].RawSlots = raw
                    /\ S.Contracts[a].Decoded = res.state

C1_Witness ==
    /\ UpdateReturned /\ config.Enabled
    /\ {"P", "Q"} \subseteq DOMAIN last.decs
    /\ {"P", "Q"} \subseteq DOMAIN heap[current].Contracts
    /\ heap[current].Contracts["P"].Decoded.kind = "UniswapV2State"
    /\ heap[current].Contracts["P"].Decoded.Reserve0 = <<15, 66, 64>>
    /\ heap[current].Contracts["Q"].Decoded.kind = "StubState"

\* C2: after any sequence of Update calls, in any order of block numbers, the
\* current snapshot has the number and hash of the last call's header.
C2_CurrentIsLastUpdate ==
    (UpdateReturned /\ config.Enabled) =>
        /\ heap[current].BlockNumber = last.block.Number
        /\ heap[current].BlockHash = last.block.Hash
        /\ current = Len(heap)

\* the last of two updates went back to a lower block number
C2_Witness ==
    /\ UpdateReturned /\ config.Enabled /\ stats.Updates = 2
    /\ heap[current].BlockNumber < heap[current - 1].BlockNumber
    /\ heap[current].BlockHash = last.block.Hash

--------------------------------------------------------------------------
(* Snapshots under concurrent readers *)

\* the snapshot object whose contracts map the writer is filling
Filling == IF wpc \in {"lookup", "read"} THEN {upd.id} ELSE {}

\* the snapshot object of an Update call that has not returned
InFlight == IF wpc \in {"lookup", "read", "store", "publish"} THEN {upd.id} ELSE {}

\* S is the complete result of one Update: one header's number, hash and time
\* and, from one reader, an entry for every watched address, which is absent
\* only when its decode failed
OneUpdateResult(S) ==
    \E h \in Headers, r \in Readers :
        /\ S.BlockNumber = h.Number /\ S.BlockHash = h.Hash /\ S.BlockTime = h.Time
        /\ DOMAIN S.Contracts \subseteq watchlist
        /\ \A a \in watchlist :
              IF a \in DOMAIN S.Contracts
              THEN \/ S.Contracts[a] = updateContractWith(a, r, FALSE, "").state
                   \/ \E d \in DecoderSet :
                         /\ updateContractWith(a, r, TRUE, d).err = ""
                         /\ S.Contracts[a] = updateContractWith(a, r, TRUE, d).state
              ELSE \E d \in DecoderSet : updateContractWith(a, r, TRUE, d).err # ""

\* C3: with one writer and concurrent readers, every snapshot a reader got
\* from GetSnapshot is the initial empty snapshot or the complete result of
\* one Update for one header, and is never the snapshot still being filled.
C3_ReadersSeeCompleteSnapshots ==
    \A r \in ReaderIds :
        held[r] # 0 =>
            /\ held[r] \in DOMAIN heap
            /\ held[r] \notin Filling
            /\ IF held[r] = 1 THEN heap[1] = InitialSnapshot
               ELSE OneUpdateResult(heap[held[r]])

\* a reader holds the published snapshot of both contracts while the writer
\* is half-way through filling the next one
C3_Witness ==
    /\ held[1] > 1 /\ held[1] = current
    /\ {"P", "Q"} \subseteq DOMAIN heap[held[1]].Contracts
    /\ wpc = "read" /\ upd.id > held[1]
    /\ heap[upd.id].Contracts # <<>>
    /\ heap[upd.id].BlockNumber # heap[held[1]].BlockNumber

\* the snapshot objects that are published: current, in history, or held
Published(id) ==
    \/ id = current
    \/ id \in Range(snapshots)
    \/ \E r \in ReaderIds : held[r] = id

\* C4: once a snapshot is published as current or inserted into history, no
\* step of any operation changes any of its fields, and a starting update
\* allocates a new object that is neither current nor in history.
C4_PublishedNeverChanges ==
    [][/\ \A id \in DOMAIN heap :
             Published(id) => (id \in DOMAIN heap' /\ heap'[id] = heap[id])
       /\ Len(heap') > Len(heap) =>
             /\ Len(heap') = Len(heap) + 1
             /\ current' # Len(heap')
             /\ Len(heap') \notin Range(snapshots')]_vars

\* a reorg has replayed onto a restored ancestor: an older snapshot with
\* contracts is still in history, held by a reader, and is not the current one
C4_Witness ==
    /\ last.op = "HandleReorg" /\ wpc = "idle"
    /\ stats.Updates >= 3
    /\ \E id \in Range(snapshots) :
          /\ id # current /\ held[1] = id
          /\ {"P", "Q"} \subseteq DOMAIN heap[id].Contracts

\* C5: in every reachable state, under any interleaving of Update,
\* HandleReorg and readers, current is non-null and refers to the initial
\* snapshot or to a snapshot fully built by an Update call.
C5_CurrentAlwaysPublished ==
    /\ current \in DOMAIN heap
    /\ current \notin InFlight
    /\ IF current = 1 THEN heap[1] = InitialSnapshot
       ELSE OneUpdateResult(heap[current])

\* HandleReorg has republished an ancestor from history and has not yet
\* replayed the new chain
C5_Witness ==
    /\ reorg.active /\ wpc = "replay" /\ reorg.rest # <<>>
    /\ current > 1 /\ current < Len(heap)
    /\ current \in Range(snapshots)
    /\ heap[current].Contracts # <<>>

--------------------------------------------------------------------------
(* Retention *)

HistoryNumbers == {heap[snapshots[k]].BlockNumber : k \in DOMAIN snapshots}

\* C6: whenever Update has returned, history holds at most MaxSnapshots
\* snapshots (MaxSnapshots > 0).
C6_HistoryAtMostMax ==
    (UpdateReturned /\ config.Enabled /\ config.MaxSnapshots > 0) =>
        Cardinality(DOMAIN snapshots) <= config.MaxSnapshots

\* the updates so far were for the consecutive blocks 1..n, one call each
ConsecutiveUpdates ==
    /\ UpdateReturned /\ config.Enabled
    /\ Len(heap) = stats.Updates + 1
    /\ \A i \in 2..Len(heap) : heap[i].BlockNumber = i - 1

\* C7: after updates for the consecutive blocks 1..n with MaxSnapshots = M,
\* history holds exactly the snapshots of the last M blocks.
C7_KeepsLastM ==
    (ConsecutiveUpdates /\ config.MaxSnapshots >= 1) =>
        LET n == stats.Updates
            M == config.MaxSnapshots
        IN /\ HistoryNumbers = {b \in 1..n : b > n - M}
           /\ Cardinality(DOMAIN snapshots) = Cardinality(HistoryNumbers)

--------------------------------------------------------------------------
(* Reorganisations *)

Hashes(chain) == {chain[i].Hash : i \in DOMAIN chain}

Tip(chain) == chain[Len(chain)]

\* each header of the chain is the parent of the next
Linked(chain) == \A i \in 2..Len(chain) : ParentHash(chain[i]) = chain[i - 1].Hash

\* the two chains are the branches above one fork block, listed in neither
ForkReorg(oldChain, newChain) ==
    /\ oldChain # <<>> /\ newChain # <<>>
    /\ Linked(oldChain) /\ Linked(newChain)
    /\ ParentHash(oldChain[1]) = ParentHash(newChain[1])
    /\ Hashes(oldChain) \cap Hashes(newChain) = {}

\* C8: when the fork block's snapshot is retained and HandleReorg is called
\* with the abandoned blocks above the fork as old chain and the replacement
\* blocks above the fork as new chain, then afterwards the current snapshot is
\* the new tip and history holds the fork snapshot and a snapshot for every
\* block of the new chain, as far as retention (tip number - MaxSnapshots) goes.
C8_ForkReorgReplaysNewChain ==
    (/\ ReorgReturned
     /\ ForkReorg(last.oldChain, last.newChain)
     /\ last.pre.heap[last.pre.current].BlockHash = Tip(last.oldChain).Hash
     /\ ParentHash(last.newChain[1]) \in DOMAIN last.pre.snapshots)
    => LET newChain == last.newChain
           retained(n) == n + config.MaxSnapshots >= Tip(newChain).Number
       IN /\ heap[current].BlockHash = Tip(newChain).Hash
          /\ retained(newChain[1].Number - 1) =>
                 ParentHash(newChain[1]) \in DOMAIN snapshots
          /\ \A j \in DOMAIN newChain :
                 retained(newChain[j].Number) => newChain[j].Hash \in DOMAIN snapshots

\* the hash HandleReorg's search selects: of the old chain's headers whose
\* hash is in the new chain, the one listed last; the zero hash when none is
SelectedHash(oldChain, newChain) ==
    LET shared == {i \in DOMAIN oldChain : oldChain[i].Hash \in Hashes(newChain)}
    IN IF shared = {} THEN HashZero
       ELSE oldChain[CHOOSE i \in shared : \A k \in shared : k <= i].Hash

\* C9: when HandleReorg finds no common hash, or the common hash has no
\* snapshot in history, it performs exactly one Update, with the last header
\* of the new chain, and returns: the current snapshot is a new snapshot of
\* that header, history gains no other hash, and no snapshot of history was
\* republished as current at any moment of the call.
C9_AncestorMissingRebuildsFromTip ==
    /\ (/\ ReorgReturned /\ config.Enabled
        /\ last.newChain # <<>>
        /\ SelectedHash(last.oldChain, last.newChain) \notin DOMAIN last.pre.snapshots)
       => LET tip == Tip(last.newChain)
              pre == last.pre
          IN /\ last.ret = "nil"
             /\ stats.Updates = pre.stats.Updates + 1
             /\ Len(heap) = Len(pre.heap) + 1
             /\ current = Len(heap)
             /\ heap[current].BlockNumber = tip.Number
             /\ heap[current].BlockHash = tip.Hash
             /\ heap[current].BlockTime = tip.Time
             /\ DOMAIN snapshots \subseteq DOMAIN pre.snapshots \cup {tip.Hash}
    /\ (/\ reorg.active
        /\ SelectedHash(reorg.oldChain, reorg.newChain) \notin DOMAIN reorg.pre.snapshots)
       => \/ current = reorg.pre.current
          \/ /\ current = Len(reorg.pre.heap) + 1
             /\ heap[current].BlockHash = Tip(reorg.newChain).Hash

\* a reorg whose chains share a hash that history does not hold, with a new
\* chain of more than one header, rebuilt from the tip alone
C9_Witness ==
    /\ ReorgReturned /\ last.ret = "nil"
    /\ Len(last.newChain) >= 2
    /\ SelectedHash(last.oldChain, last.newChain) # HashZero
    /\ SelectedHash(last.oldChain, last.newChain) \notin DOMAIN last.pre.snapshots
    /\ last.pre.snapshots # <<>>
    /\ stats.Updates = 2
    /\ heap[current].BlockHash = Tip(last.newChain).Hash
    /\ last.newChain[1].Hash \notin DOMAIN snapshots

\* C10: every HandleReorg call on an enabled cache adds exactly one to
\* ReorgCount, whether or not the ancestor is found and however many blocks
\* are replayed: the counter grows by one in the step in which the call is
\* made and in no other step of any operation, and a returned call has
\* counted one.
C10_ReorgCountedOnce ==
    [][/\ stats'.ReorgCount =
              stats.ReorgCount + (IF wpc = "idle" /\ wpc' = "search" THEN 1 ELSE 0)
       /\ (ReorgReturned' /\ config.Enabled) =>
              stats'.ReorgCount = last'.pre.stats.ReorgCount + 1]_vars

\* a counted reorg that found its ancestor and replayed two blocks
C10_Witness ==
    /\ ReorgReturned /\ last.ret = "nil"
    /\ stats.ReorgCount = 1
    /\ SelectedHash(last.oldChain, last.newChain) \in DOMAIN last.pre.snapshots
    /\ stats.Updates = 3
    /\ Len(heap) = 4
    /\ heap[4].BlockHash = Tip(last.newChain).Hash
    /\ heap[3].BlockHash \in Hashes(last.newChain)

\* a counted reorg that did not find its ancestor
C10_WitnessNotFound ==
    /\ ReorgReturned
    /\ stats.ReorgCount = 1
    /\ SelectedHash(last.oldChain, last.newChain) = HashZero

\* the history of a cache value, as block hash -> snapshot contents
HistoryContents(c) == [k \in DOMAIN c.snapshots |-> c.heap[c.snapshots[k]]]

\* the steps of a returned Update, whatever ran between them, leave the
\* snapshots, the current pointer, the history and the Updates counter that
\* the call run alone leaves on the decoders its lookups found
UpdateStepsAgree ==
    (UpdateReturned /\ config.Enabled) =>
        LET U == UpdateC(last.pre, last.block, last.stateDB, last.decs)
        IN /\ heap = U.heap
           /\ current = U.current
           /\ snapshots = U.snapshots
           /\ stats.Updates = U.stats.Updates

\* C11: HandleReorg with an empty old chain and a one-header new chain leaves
\* the same current snapshot, the same history contents and the same Updates
\* counter as a single Update of that header from the same cache state.
C11_ReorgOfOneIsUpdate ==
    (/\ ReorgReturned
     /\ last.oldChain = <<>>
     /\ Len(last.newChain) = 1)
    => LET U == UpdateC(last.pre, last.newChain[1], last.stateDB, decoders)
       IN /\ last.ret = "nil"
          /\ heap[current] = U.heap[U.current]
          /\ [k \in DOMAIN snapshots |-> heap[snapshots[k]]] = HistoryContents(U)
          /\ stats.Updates = U.stats.Updates

\* such a reorg on a cache that already holds two blocks, one of which the
\* cleanup of the reorg's update removed
C11_Witness ==
    /\ ReorgReturned /\ last.ret = "nil"
    /\ last.oldChain = <<>> /\ Len(last.newChain) = 1
    /\ stats.Updates = 3
    /\ heap[current].BlockHash = last.newChain[1].Hash
    /\ heap[current].Contracts # <<>>
    /\ Cardinality(DOMAIN snapshots) < 3

--------------------------------------------------------------------------
(* Validation and lookups *)

\* the step is a call of Validate
ValidateStep == \E stateDB \in Readers : Validate(stateDB)

\* the step is a call of ValidateContract
ValidateContractStep ==
    \E addr \in Addrs, stateDB \in Readers : ValidateContract(addr, stateDB)

\* the step is a call of GetContractState
GetContractStateStep == \E addr \in Addrs : GetContractState(addr)

\* some slot cached in snapshot S differs from the value reader r gives
SomeSlotDiffers(S, r) ==
    \E a \in DOMAIN S.Contracts :
        \E s \in DOMAIN S.Contracts[a].RawSlots :
            S.Contracts[a].RawSlots[s] # GetState(r, a, s)

\* the number of slots cached in S that differ from reader r's values
DifferingSlots(S, r) ==
    Cardinality({p \in Addrs \X (1..uniswapV2SlotKLast) :
                    /\ p[1] \in DOMAIN S.Contracts
                    /\ p[2] \in DOMAIN S.Contracts[p[1]].RawSlots
                    /\ S.Contracts[p[1]].RawSlots[p[2]] # GetState(r, p[1], p[2])})

\* the step is the return of a Validate call that loaded a snapshot
ValidateReturn ==
    /\ validation.op = "Validate" /\ validation.pc # "idle"
    /\ validation'.pc = "idle"

\* the step is one of a Validate or ValidateContract call
ValidationStep ==
    \/ ValidateStep
    \/ ValidateRead
    \/ ValidateCount
    \/ ValidateContractStep
    \/ ValidateContractLookup
    \/ ValidateContractRead
    \/ ValidateContractCount

\* C12: with ShadowMode on, Validate(r) takes the snapshot that is current
\* when it is called and returns ErrInconsistentState exactly when some slot
\* of that snapshot differs from r's value, whatever the writer does while
\* the call runs; a failing call adds exactly 1 to ValidationErrors, in the
\* step it returns with, a passing call leaves the counter; a Validate(r)
\* called right after Update(h, r) returned passes.
C12_ValidateVerdict ==
    [][/\ (ValidateStep /\ config.ShadowMode)
          => /\ validation'.snap = current
             /\ stats' = stats /\ last' = last
             /\ (UpdateReturned /\ last.stateDB = validation'.stateDB)
                   => ~SomeSlotDiffers(heap[current], validation'.stateDB)
       /\ (ValidateRead /\ ~ValidateReturn) => stats' = stats
       /\ ValidateReturn
          => LET differs == SomeSlotDiffers(heap[validation.snap], validation.stateDB)
             IN /\ last'.op = "Validate" /\ last'.stateDB = validation.stateDB
                /\ (last'.ret = "ErrInconsistentState") <=> differs
                /\ (last'.ret = "nil") <=> ~differs
                /\ stats'.ValidationErrors =
                       stats.ValidationErrors + (IF differs THEN 1 ELSE 0)
                /\ last'.snap = validation.snap]_vars

\* a failing validation of a snapshot in which several slots differ
C12_Witness ==
    /\ last.op = "Validate" /\ wpc = "idle" /\ config.ShadowMode
    /\ last.ret = "ErrInconsistentState"
    /\ stats.ValidationErrors = 1
    /\ last.snap = current
    /\ DifferingSlots(heap[current], last.stateDB) >= 2

\* a passing validation of a snapshot that holds decoded contracts
C12_WitnessPass ==
    /\ last.op = "Validate" /\ wpc = "idle" /\ config.ShadowMode
    /\ last.ret = "nil" /\ last.readerCalled
    /\ stats.ValidationErrors = 0
    /\ last.snap = current
    /\ {"P", "Q"} \subseteq DOMAIN heap[current].Contracts

\* a validation that failed on the snapshot it had loaded, in which several
\* slots differ, while an update published a snapshot that agrees with the
\* reader before the call returned
C12_WitnessOvertaken ==
    /\ last.op = "Validate" /\ wpc = "idle" /\ config.ShadowMode
    /\ last.ret = "ErrInconsistentState"
    /\ stats.ValidationErrors = 1
    /\ last.snap # current
    /\ DifferingSlots(heap[last.snap], last.stateDB) >= 2
    /\ heap[current].Contracts # <<>>
    /\ ~SomeSlotDiffers(heap[current], last.stateDB)

\* C13: Validate and ValidateContract are pure observers: a call leaves the
\* snapshots, the current pointer, the history, the decoder registry and the
\* Hits, Misses, Updates and ReorgCount counters unchanged; only
\* ValidationErrors may change.
C13_ValidationIsPureObserver ==
    [][ValidationStep
       => /\ heap' = heap /\ current' = current /\ snapshots' = snapshots
          /\ decoders' = decoders
          /\ stats'.Hits = stats.Hits /\ stats'.Misses = stats.Misses
          /\ stats'.Updates = stats.Updates /\ stats'.ReorgCount = stats.ReorgCount]_vars

\* the step is the return of a GetContractState call
GetContractStateReturn == lookup.op = "GetContractState" /\ GetContractStateCount

\* C14: GetContractState(addr) takes the snapshot that is current when it is
\* called; it returns the ContractState that snapshot stores for addr and adds
\* exactly 1 to Hits when addr is in that snapshot, returns ErrNotFound and
\* adds exactly 1 to Misses when it is not, whatever the writer publishes
\* while the call runs; a call changes exactly one of the two counters and
\* nothing else.
C14_LookupCountsHitOrMiss ==
    [][/\ GetContractStateStep
          => /\ lookup'.snap = current
             /\ stats' = stats /\ last' = last
             /\ heap' = heap /\ current' = current /\ snapshots' = snapshots
             /\ decoders' = decoders /\ watchlist' = watchlist /\ config' = config
       /\ GetContractStateReturn
          => LET found == lookup.addr \in DOMAIN heap[lookup.snap].Contracts
             IN /\ last'.op = "GetContractState" /\ last'.addr = lookup.addr
                /\ found => /\ last'.ret = "nil"
                            /\ last'.val = heap[lookup.snap].Contracts[lookup.addr]
                            /\ stats' = [stats EXCEPT !.Hits = @ + 1]
                /\ ~found => /\ last'.ret = "ErrNotFound"
                             /\ stats' = [stats EXCEPT !.Misses = @ + 1]
                /\ heap' = heap /\ current' = current /\ snapshots' = snapshots
                /\ decoders' = decoders /\ watchlist' = watchlist
                /\ config' = config]_vars

\* a hit that returned the decoded pool
C14_Witness ==
    /\ last.op = "GetContractState" /\ wpc = "idle" /\ last.ret = "nil"
    /\ stats.Hits = 1 /\ stats.Misses = 0
    /\ last.snap = current
    /\ last.val = heap[current].Contracts[last.addr]
    /\ last.val.Decoded.kind = "UniswapV2State"

\* a miss on a cache that holds another contract
C14_WitnessMiss ==
    /\ last.op = "GetContractState" /\ wpc = "idle" /\ last.ret = "ErrNotFound"
    /\ stats.Hits = 0 /\ stats.Misses = 1
    /\ last.snap = current
    /\ heap[current].Contracts # <<>>

\* a miss counted for the snapshot the call had loaded, after an update
\* published a snapshot that holds the address
C14_WitnessOvertaken ==
    /\ last.op = "GetContractState" /\ wpc = "idle" /\ last.ret = "ErrNotFound"
    /\ stats.Hits = 0 /\ stats.Misses = 1
    /\ last.snap # current
    /\ last.addr \in DOMAIN heap[current].Contracts

\* C16: with ShadowMode off, Validate and ValidateContract return success
\* without calling the state reader and without changing any counter, even
\* when cached slots differ from the reader's or the address is not cached.
C16_NoShadowNoValidation ==
    [][((ValidateStep \/ ValidateContractStep) /\ ~config.ShadowMode)
       => /\ last'.op \in {"Validate", "ValidateContract"}
          /\ last'.ret = "nil"
          /\ ~last'.readerCalled
          /\ stats' = stats
          /\ validation'.pc = "idle"]_vars

\* a Validate that returned success, ShadowMode off, over a snapshot whose
\* slots differ from the reader's
C16_Witness ==
    /\ last.op = "Validate" /\ wpc = "idle" /\ ~config.ShadowMode
    /\ last.ret = "nil"
    /\ SomeSlotDiffers(heap[current], last.stateDB)

\* a ValidateContract that returned success, ShadowMode off, for an address
\* that is not cached
C16_WitnessNotCached ==
    /\ last.op = "ValidateContract" /\ wpc = "idle" /\ ~config.ShadowMode
    /\ last.ret = "nil"
    /\ heap[current].Contracts # <<>>
    /\ last.addr \notin DOMAIN heap[current].Contracts

--------------------------------------------------------------------------
(* The disabled cache *)

\* the step is a call of Update
UpdateCallStep == \E block \in Headers, stateDB \in Readers : UpdateCall(block, stateDB)

\* the step is a call of HandleReorg
ReorgCallStep ==
    \E oldChain \in Chains, newChain \in Chains :
        ReorgCall(oldChain, newChain, ReorgState(newChain))

\* C15: on a disabled cache Update and HandleReorg return success without
\* effect: snapshots, current, history and all five counters are unchanged
\* and the state reader is not called.
C15_DisabledNoEffect ==
    [][((UpdateCallStep \/ ReorgCallStep) /\ ~config.Enabled)
       => /\ last'.op \in {"Update", "HandleReorg"}
          /\ last'.ret = "nil"
          /\ ~last'.readerCalled
          /\ wpc' = "idle"
          /\ heap' = heap /\ current' = current /\ snapshots' = snapshots
          /\ stats' = stats]_vars

\* a reorg with an empty new chain returned on a disabled cache that watches
\* contracts with registered decoders
C15_Witness ==
    /\ ~config.Enabled
    /\ ReorgReturned /\ last.ret = "nil"
    /\ last.oldChain # <<>> /\ last.newChain = <<>>
    /\ watchlist \cap DOMAIN decoders # {}
    /\ heap = <<InitialSnapshot>> /\ current = 1 /\ stats.Misses = 1
    /\ stats.ReorgCount = 0

\* an update returned on such a cache
C15_WitnessUpdate ==
    /\ ~config.Enabled
    /\ UpdateReturned /\ last.ret = "nil"
    /\ watchlist \cap DOMAIN decoders # {}
    /\ heap = <<InitialSnapshot>> /\ stats.Updates = 0

--------------------------------------------------------------------------
(* The entries of published snapshots *)

\* the snapshot objects reachable from the cache: current and history
PublishedIds == {current} \cup Range(snapshots)

\* entry e was built with decoder D: D's type, D's required slots, a record
ShapedBy(e, D) ==
    /\ e.Type = DecoderType(D)
    /\ Range(RequiredSlots(D)) \subseteq DOMAIN e.RawSlots
    /\ e.Decoded # Nil

\* entry e was built without a decoder
Placeholder(e) ==
    /\ e.Type = ContractTypeUnknown
    /\ e.RawSlots = <<>>
    /\ e.Decoded = Nil

\* C17: in every reachable state, RegisterDecoder being callable at any time,
\* for every published snapshot S and every address A of S.Contracts that has
\* a registered decoder D: every required slot of D is a key of the entry's
\* RawSlots, Decoded is present and the entry's type is D's.
C17_RegisteredDecoderShapesEntry ==
    \A id \in PublishedIds :
        \A A \in DOMAIN heap[id].Contracts \cap DOMAIN decoders :
            ShapedBy(heap[id].Contracts[A], decoders[A])

\* C17 as amended: an entry is shaped by the decoder its Update found
\* registered for the address, and is a placeholder when it found none; every
\* entry of every published snapshot is one or the other, whatever is
\* registered later.
C17_EntryShapedAtUpdate ==
    /\ (UpdateReturned /\ config.Enabled) =>
           \A A \in DOMAIN heap[current].Contracts :
               IF A \in DOMAIN last.decs
               THEN ShapedBy(heap[current].Contracts[A], last.decs[A])
               ELSE Placeholder(heap[current].Contracts[A])
    /\ \A id \in PublishedIds :
           \A A \in DOMAIN heap[id].Contracts :
               \/ Placeholder(heap[id].Contracts[A])
               \/ \E D \in DecoderSet : ShapedBy(heap[id].Contracts[A], D)

\* history holds a placeholder for P built before P's decoder was registered,
\* and the current snapshot holds P decoded
C17_Witness ==
    /\ UpdateReturned
    /\ "P" \in DOMAIN last.decs
    /\ "P" \in DOMAIN heap[current].Contracts
    /\ ShapedBy(heap[current].Contracts["P"], last.decs["P"])
    /\ \E id \in Range(snapshots) :
          /\ "P" \in DOMAIN heap[id].Contracts
          /\ Placeholder(heap[id].Contracts["P"])

\* every entry of every published snapshot is stored under its own address,
\* which is a watched one
EntriesAreWatched ==
    \A id \in PublishedIds :
        \A A \in DOMAIN heap[id].Contracts :
            /\ heap[id].Contracts[A].Address = A
            /\ A \in watchlist

\* C18: in every reachable state every entry of every snapshot (current or in
\* history) carries the address it is stored under, which is in the
\* watchlist; no operation changes the watchlist.
C18_EntriesWatchedWatchlistFixed ==
    [][EntriesAreWatched' /\ watchlist' = watchlist]_vars

\* a cache that watches P alone while a decoder is registered for Q too, with
\* snapshots published
C18_Witness ==
    /\ watchlist = {"P"} /\ "Q" \in DOMAIN decoders
    /\ stats.Updates = 2
    /\ DOMAIN heap[current].Contracts = {"P"}
    /\ heap[current].Contracts["P"].Address = "P"
    /\ Cardinality(DOMAIN snapshots) = 2

--------------------------------------------------------------------------
(* Statistics *)

\* C19: none of the five counters (Hits, Misses, Updates, ValidationErrors,
\* ReorgCount) ever decreases.
C19_CountersNeverDecrease ==
    [][/\ stats'.Hits >= stats.Hits
       /\ stats'.Misses >= stats.Misses
       /\ stats'.Updates >= stats.Updates
       /\ stats'.ValidationErrors >= stats.ValidationErrors
       /\ stats'.ReorgCount >= stats.ReorgCount]_vars

\* updates, a failed validation and a reorg that rebuilt from the tip have
\* all been counted
C19_Witness ==
    /\ ReorgReturned /\ last.ret = "nil"
    /\ stats.ReorgCount = 1
    /\ stats.Updates = 3
    /\ stats.ValidationErrors = 1
    /\ SelectedHash(last.oldChain, last.newChain) = HashZero

--------------------------------------------------------------------------
(* The Uniswap-V2 reserves word *)

\* C20: for reserve0, reserve1 < 2^112 and ts < 2^32, decoding the word
\* reserve0 | reserve1 << 112 | ts << 224 as the reserves slot gives back
\* reserve0, reserve1 and the timestamp, the maxima included.
C20_PackDecodeRoundTrip ==
    dec.pc = "done" =>
        /\ dec.err = ""
        /\ dec.state.Reserve0 = dec.reserve0
        /\ dec.state.Reserve1 = dec.reserve1
        /\ dec.state.BlockTimestampLast = dec.ts

\* the maxima 2^112 - 1, 2^112 - 1, 2^32 - 1 decoded
C20_Witness ==
    /\ dec.pc = "done"
    /\ dec.reserve0 = [i \in 1..14 |-> 255]
    /\ dec.reserve1 = [i \in 1..14 |-> 255]
    /\ dec.ts = <<255, 255, 255, 255>>
    /\ dec.slots[uniswapV2SlotReserves] = MaxWord
    /\ dec.state.Reserve1 = dec.reserve1

\* the test's values 1000000, 500, 1234567890 decoded from the test's word
C20_WitnessTest ==
    /\ dec.pc = "done"
    /\ dec.reserve0 = <<15, 66, 64>> /\ dec.reserve1 = <<1, 244>>
    /\ dec.ts = <<73, 150, 2, 210>>
    /\ dec.slots[uniswapV2SlotReserves] = PackedReserves
    /\ dec.state.Reserve0 = <<15, 66, 64>>

--------------------------------------------------------------------------
(* Construction *)

\* the cache as New leaves it for configuration cfg
BuiltFrom(cfg) ==
    /\ config = [Enabled |-> cfg.Enabled, ShadowMode |-> cfg.ShadowMode,
                 MaxSnapshots |-> NewConfig(cfg).MaxSnapshots]
    /\ watchlist = cfg.Watchlist

\* C21: a freshly constructed cache has a current snapshot with block number
\* 0 and no contracts, an empty history, Hits, Misses and Updates all 0, and
\* GetContractState of any address returns ErrNotFound; a cache built from
\* DefaultConfig() is disabled.
C21_FreshCache ==
    (last.op = "New" /\ wpc = "idle") =>
        /\ current \in DOMAIN heap
        /\ heap[current].BlockNumber = 0
        /\ heap[current].Contracts = <<>>
        /\ snapshots = <<>>
        /\ stats.Hits = 0 /\ stats.Misses = 0 /\ stats.Updates = 0
        /\ \A a \in Addrs : GetContractStateC(stats, heap[current], a).ret = "ErrNotFound"
        /\ BuiltFrom(DefaultConfig) => ~config.Enabled

\* a cache just built from DefaultConfig()
C21_Witness ==
    /\ last.op = "New" /\ wpc = "idle"
    /\ BuiltFrom(DefaultConfig)
    /\ heap[current] = InitialSnapshot

\* a cache just built enabled, with a watchlist
C21_WitnessEnabled ==
    /\ last.op = "New" /\ wpc = "idle"
    /\ config.Enabled /\ watchlist = {"P", "Q"}

--------------------------------------------------------------------------
(* The node's facade over the cache (BlockChain): hotCache is the cache    *)
(* above, or nil when the node was started without one                     *)

\* Cache.IsEnabled
IsEnabled == config.Enabled

\* BlockChain.HotCache: the cache handle, nil if there is none or it is disabled
HotCache ==
    /\ wpc # "panic"
    /\ last' = [NoCall EXCEPT !.op = "HotCache",
                              !.val = IF hotCache = "nil" \/ ~IsEnabled THEN Nil
                                      ELSE [kind |-> "Cache"]]
    /\ UNCHANGED <<hotCache, dec, gst, validation, lookup, config, watchlist, heap, current, snapshots, decoders,
                   stats, wpc, upd, reorg, held>>

\* BlockChain.GetHotCacheSnapshot
GetHotCacheSnapshot ==
    /\ wpc # "panic"
    /\ last' = IF hotCache = "nil" \/ ~IsEnabled
               THEN [NoCall EXCEPT !.op = "GetHotCacheSnapshot", !.ret = "ErrHotCacheDisabled"]
               ELSE [NoCall EXCEPT !.op = "GetHotCacheSnapshot", !.val = heap[current]]
    /\ UNCHANGED <<hotCache, dec, gst, validation, lookup, config, watchlist, heap, current, snapshots, decoders,
                   stats, wpc, upd, reorg, held>>

\* BlockChain.GetHotCachedContractState(addr) is called: without an enabled
\* cache it returns ErrHotCacheDisabled; with one, GetContractState's load
GetHotCachedContractState(addr) ==
    /\ wpc # "panic"
    /\ lookup.pc = "idle"
    /\ stats.Hits + stats.Misses + stats.ValidationErrors < MaxCalls
    /\ IF hotCache = "nil" \/ ~IsEnabled
       THEN /\ last' = [NoCall EXCEPT !.op = "GetHotCachedContractState", !.addr = addr,
                                      !.ret = "ErrHotCacheDisabled"]
            /\ lookup' = lookup
       ELSE /\ lookup' = BeginLookup("GetHotCachedContractState", addr, 0)
            /\ last' = last
    /\ UNCHANGED <<hotCache, dec, gst, validation, config, watchlist, heap, current,
                   snapshots, decoders, stats, wpc, upd, reorg, held>>

\* BlockChain.GetHotCachedUniswapV2State(addr) is called: through
\* GetHotCachedContractState
GetHotCachedUniswapV2State(addr) ==
    /\ wpc # "panic"
    /\ lookup.pc = "idle"
    /\ stats.Hits + stats.Misses + stats.ValidationErrors < MaxCalls
    /\ IF hotCache = "nil" \/ ~IsEnabled
       THEN /\ last' = [NoCall EXCEPT !.op = "GetHotCachedUniswapV2State", !.addr = addr,
                                      !.ret = "ErrHotCacheDisabled"]
            /\ lookup' = lookup
       ELSE /\ lookup' = BeginLookup("GetHotCachedUniswapV2State", addr, 0)
            /\ last' = last
    /\ UNCHANGED <<hotCache, dec, gst, validation, config, watchlist, heap, current,
                   snapshots, decoders, stats, wpc, upd, reorg, held>>

\* Cache.GetStatistics, `return c.stats`: field k of the struct is copied
\* into g's copy, on its own and not together with the other fields
CopyField(g, k) ==
    [g EXCEPT !.n = k, !.copy[StatisticsFields[k]] = stats[StatisticsFields[k]]]

\* BlockChain.GetHotCacheStatistics is called: without an enabled cache it
\* returns the zero Statistics with ErrHotCacheDisabled; with one,
\* Cache.GetStatistics begins to copy the counters, the first field here
GetHotCacheStatistics ==
    /\ wpc # "panic"
    /\ ~gst.active
    /\ IF hotCache = "nil" \/ ~IsEnabled
       THEN /\ last' = [NoCall EXCEPT !.op = "GetHotCacheStatistics",
                                      !.ret = "ErrHotCacheDisabled",
                                      !.val = [kind |-> "Statistics", stats |-> ZeroStats]]
            /\ gst' = gst
       ELSE /\ gst' = CopyField([NoStatistics EXCEPT !.active = TRUE], 1)
            /\ UNCHANGED last
    /\ UNCHANGED <<hotCache, dec, validation, lookup, config, watchlist, heap, current, snapshots, decoders,
                   stats, wpc, upd, reorg, held>>

\* Cache.GetStatistics goes on: the next field is copied, as the counter is
\* now; after the last field the copy is returned
GetStatisticsCopy ==
    /\ wpc # "panic"
    /\ gst.active
    /\ \E g \in {CopyField(gst, gst.n + 1)} :
          IF g.n < Len(StatisticsFields)
          THEN /\ gst' = g
               /\ UNCHANGED last
          ELSE /\ gst' = NoStatistics
               /\ last' = [NoCall EXCEPT !.op = "GetHotCacheStatistics",
                                         !.val = [kind |-> "Statistics", stats |-> g.copy]]
    /\ UNCHANGED <<hotCache, dec, validation, lookup, config, watchlist, heap, current, snapshots, decoders,
                   stats, wpc, upd, reorg, held>>

\* BlockChain.RegisterHotCacheDecoder(addr, decoder): only a missing cache is
\* tested, not IsEnabled
RegisterHotCacheDecoder(addr, decoder) ==
    /\ wpc # "panic"
    /\ IF hotCache = "nil"
       THEN /\ decoders' = decoders
            /\ last' = [NoCall EXCEPT !.op = "RegisterHotCacheDecoder", !.addr = addr,
                                      !.ret = "ErrHotCacheDisabled"]
       ELSE /\ decoders' = Put(decoders, addr, decoder)
            /\ last' = [NoCall EXCEPT !.op = "RegisterHotCacheDecoder", !.addr = addr]
    /\ UNCHANGED <<hotCache, dec, gst, validation, lookup, config, watchlist, heap, current, snapshots, stats, wpc,
                   upd, reorg, held>>

\* a node without cache, or with a cache built from one of the host's
\* configurations
InitFacade ==
    /\ hotCache \in {"nil", "cache"}
    /\ \E cfg \in IF hotCache = "nil" THEN {DefaultConfig} ELSE Configs :
          /\ config = [Enabled |-> cfg.Enabled, ShadowMode |-> cfg.ShadowMode,
                       MaxSnapshots |-> NewConfig(cfg).MaxSnapshots]
          /\ watchlist = cfg.Watchlist
    /\ heap = <<InitialSnapshot>>
    /\ current = 1
    /\ snapshots = <<>>
    /\ decoders = <<>>
    /\ stats = ZeroStats
    /\ wpc = "idle"
    /\ upd = NoUpdate
    /\ reorg = NoReorg
    /\ held = [r \in ReaderIds |-> 0]
    /\ last = NoCall
    /\ dec = NoDecode
    /\ gst = NoStatistics
    /\ validation = NoValidation
    /\ lookup = NoLookup

\* the blocks imported by the node behind the facade
FacadeHeaders == {Header(1, "a")}

\* the decoders registered through the facade
FacadeRegistrations == Registrations

NextFacade ==
    \/ \E block \in IF hotCache = "cache" THEN FacadeHeaders ELSE {} :
          UpdateCall(block, StateAt(block))
    \/ UpdateLookup
    \/ UpdateRead
    \/ UpdateStore
    \/ UpdatePublish
    \/ HotCache
    \/ GetHotCacheSnapshot
    \/ \E addr \in Addrs : GetHotCachedContractState(addr)
    \/ \E addr \in Addrs : GetHotCachedUniswapV2State(addr)
    \/ GetContractStateCount
    \/ GetHotCacheStatistics
    \/ GetStatisticsCopy
    \/ \E reg \in FacadeRegistrations : RegisterHotCacheDecoder(reg[1], reg[2])

SpecFacade == InitFacade /\ [][NextFacade]_vars

\* the step is a call of one of the four getters or of HotCache
GetterStep ==
    \/ HotCache
    \/ GetHotCacheSnapshot
    \/ \E addr \in Addrs : GetHotCachedContractState(addr)
    \/ \E addr \in Addrs : GetHotCachedUniswapV2State(addr)
    \/ GetHotCacheStatistics

\* the step is a call of a facade operation
FacadeStep ==
    \/ GetterStep
    \/ \E reg \in FacadeRegistrations : RegisterHotCacheDecoder(reg[1], reg[2])

\* C22: when the cache is disabled (no cache instance, or Enabled = false)
\* every facade operation reports Disabled and has no effect: HotCache returns
\* nil, the four getters return ErrHotCacheDisabled, and
\* RegisterHotCacheDecoder returns ErrHotCacheDisabled without registering
\* the decoder.
C22_DisabledFacade ==
    [][(FacadeStep /\ (hotCache = "nil" \/ ~config.Enabled))
       => /\ IF last'.op = "HotCache" THEN last'.val = Nil
             ELSE last'.ret = "ErrHotCacheDisabled"
          /\ UNCHANGED <<config, watchlist, heap, current, snapshots, decoders, stats>>]_vars

\* the getters alone: on a disabled cache they report Disabled and change
\* nothing
C22_DisabledGetters ==
    [][(GetterStep /\ (hotCache = "nil" \/ ~config.Enabled))
       => /\ IF last'.op = "HotCache" THEN last'.val = Nil
             ELSE last'.ret = "ErrHotCacheDisabled"
          /\ UNCHANGED <<config, watchlist, heap, current, snapshots, decoders, stats>>]_vars

\* a decoder registered through the facade of a disabled cache
C22_RegisteredWhileDisabled ==
    /\ last.op = "RegisterHotCacheDecoder" /\ last.ret = "nil"
    /\ hotCache = "cache" /\ ~config.Enabled
    /\ last.addr \in DOMAIN decoders

--------------------------------------------------------------------------
(* Retention under reorgs and gaps *)

\* C23: in every reachable state, under any sequence of Update and
\* HandleReorg calls (reorgs that ingest several blocks with the same number
\* but different hashes included), history never holds more than
\* MaxSnapshots + 1 snapshots.
C23_HistoryAtMostMaxPlusOne ==
    Cardinality(DOMAIN snapshots) <= config.MaxSnapshots + 1

\* the chain ids known_contracts.go knows: mainnet and Sepolia
MainnetChainID == 1
SepoliaChainID == 11155111
ChainIDs == {MainnetChainID, SepoliaChainID}

\* UniswapV2PairsMainnet: the addresses of the five known pairs, each named
\* here by its key in the map
UniswapV2PairsMainnet == {"USDC/WETH", "USDT/WETH", "DAI/WETH", "WBTC/WETH", "USDC/USDT"}

\* GetDefaultWatchlist(chainID): four of the known pairs on mainnet, nothing
\* on any other chain
GetDefaultWatchlist(chainID) ==
    IF chainID = MainnetChainID
    THEN {"USDC/WETH", "USDT/WETH", "DAI/WETH", "WBTC/WETH"}
    ELSE {}

\* RegisterDefaultDecoders(cache, chainID) on registry decs: on mainnet one
\* UniswapV2Decoder is registered for every known pair, elsewhere nothing
RegisterDefaultDecoders(decs, chainID) ==
    IF chainID = MainnetChainID
    THEN [a \in DOMAIN decs \cup UniswapV2PairsMainnet |->
             IF a \in UniswapV2PairsMainnet THEN "UniswapV2Decoder" ELSE decs[a]]
    ELSE decs

\* headers whose numbers leave gaps wider than the retention window
GapHeaders == {Header(n, b) : n \in 1..MaxGapBlock, b \in Branches}

\* an enabled cache built with the default watchlist and the default decoders
\* of its chain, fed blocks in any order and with gaps
InitGaps ==
    /\ config \in {[Enabled |-> TRUE, ShadowMode |-> TRUE, MaxSnapshots |-> m] : m \in {1, 2}}
    /\ \E chainID \in ChainIDs :
          /\ watchlist = GetDefaultWatchlist(chainID)
          /\ decoders = RegisterDefaultDecoders(<<>>, chainID)
    /\ heap = <<InitialSnapshot>>
    /\ current = 1
    /\ snapshots = <<>>
    /\ stats = ZeroStats
    /\ wpc = "idle"
    /\ upd = NoUpdate
    /\ reorg = NoReorg
    /\ held = [r \in ReaderIds |-> 0]
    /\ last = NoCall
    /\ dec = NoDecode
    /\ gst = NoStatistics
    /\ validation = NoValidation
    /\ lookup = NoLookup
    /\ hotCache = "cache"

NextGaps ==
    \/ \E block \in GapHeaders : UpdateCall(block, StateAt(block))
    \/ UpdateLookup
    \/ UpdateRead
    \/ UpdateStore
    \/ UpdatePublish

SpecGaps == InitGaps /\ [][NextGaps]_vars

\* C24: after every Update(h) on an enabled cache returns, whatever updates
\* came before (gaps in block numbers included), no snapshot in history has a
\* block number strictly below max(0, h.Number - MaxSnapshots).
C24_NothingBelowCutoff ==
    (UpdateReturned /\ config.Enabled) =>
        LET cutoff == IF last.block.Number > config.MaxSnapshots
                      THEN last.block.Number - config.MaxSnapshots
                      ELSE 0
        IN \A k \in DOMAIN snapshots : heap[snapshots[k]].BlockNumber >= cutoff

--------------------------------------------------------------------------
(* HandleReorg: the ancestor and the replay *)

\* the chain lists its headers in ascending block-number order
Ascending(chain) == \A i \in 2..Len(chain) : chain[i - 1].Number < chain[i].Number

\* the headers of the old chain whose hash is also in the new chain
SharedHeaders(oldChain, newChain) ==
    {oldChain[i] : i \in {k \in DOMAIN oldChain : oldChain[k].Hash \in Hashes(newChain)}}

\* the shared hash with the highest block number, the zero hash when none
HighestShared(oldChain, newChain) ==
    LET shared == SharedHeaders(oldChain, newChain)
    IN IF shared = {} THEN HashZero
       ELSE (CHOOSE h \in shared : \A g \in shared : g.Number <= h.Number).Hash

\* the headers of a chain with a number above n
NumberAbove(chain, n) == Cardinality({j \in DOMAIN chain : chain[j].Number > n})

\* C25: for an old chain and a new chain each in ascending block-number
\* order, HandleReorg selects as common ancestor the shared hash with the
\* highest block number when the chains share a hash (seen in what it
\* replays: the headers above that ancestor, and the ancestor itself when
\* there is none above); when they share none the ancestor is none and no
\* snapshot of history is republished as current at any moment of the call.
C25_AncestorIsHighestShared ==
    /\ (/\ ReorgReturned /\ config.Enabled
        /\ Ascending(last.oldChain) /\ Ascending(last.newChain))
       => LET oldChain == last.oldChain
              newChain == last.newChain
              pre == last.pre
              ancestor == HighestShared(oldChain, newChain)
          IN /\ FindCommon(oldChain, newChain, Len(oldChain)) = ancestor
             /\ (ancestor # HashZero /\ ancestor \in DOMAIN pre.snapshots) =>
                   LET n == pre.heap[pre.snapshots[ancestor]].BlockNumber
                   IN /\ stats.Updates = pre.stats.Updates + NumberAbove(newChain, n)
                      /\ NumberAbove(newChain, n) = 0 => current = pre.snapshots[ancestor]
             /\ ancestor = HashZero =>
                   /\ SharedHeaders(oldChain, newChain) = {}
                   /\ current = pre.current \/ current > Len(pre.heap)
    /\ (/\ reorg.active /\ wpc # "search"
        /\ Ascending(reorg.oldChain) /\ Ascending(reorg.newChain))
       => /\ reorg.commonHash = HighestShared(reorg.oldChain, reorg.newChain)
          /\ reorg.commonHash = HashZero =>
                current = reorg.pre.current \/ current > Len(reorg.pre.heap)

\* a reorg whose chains share two hashes, the higher one in history, and
\* which replayed the one header above it
C25_Witness ==
    /\ ReorgReturned /\ last.ret = "nil"
    /\ Cardinality(SharedHeaders(last.oldChain, last.newChain)) >= 2
    /\ HighestShared(last.oldChain, last.newChain) \in DOMAIN last.pre.snapshots
    /\ HighestShared(last.oldChain, last.newChain) # last.oldChain[1].Hash
    /\ Tip(last.newChain).Hash \notin Hashes(last.oldChain)
    /\ heap[current].BlockHash = Tip(last.newChain).Hash
    /\ stats.Updates = 3

\* a reorg whose chains share no hash
C25_WitnessNone ==
    /\ ReorgReturned /\ last.ret = "nil"
    /\ last.oldChain # <<>>
    /\ SharedHeaders(last.oldChain, last.newChain) = {}
    /\ current = Len(heap)

\* new chains handed over in any list order: the permutations of branch b
\* from the fork block
UnorderedChains ==
    LET b == <<Header(1, "a"), Header(2, "b"), Header(3, "b")>>
    IN {[i \in 1..3 |-> b[p[i]]] : p \in {q \in [1..3 -> 1..3] : Range(q) = 1..3}}

\* the old chains of these reorgs: branch a from the fork block
AbandonedChains ==
    {<<Header(1, "a")>>, <<Header(1, "a"), Header(2, "a")>>,
     <<Header(1, "a"), Header(2, "a"), Header(3, "a")>>}

NextReplay ==
    \/ \E block \in Headers : UpdateCall(block, StateAt(block))
    \/ UpdateLookup
    \/ UpdateRead
    \/ UpdateStore
    \/ UpdatePublish
    \/ \E oldChain \in AbandonedChains, newChain \in UnorderedChains :
          ReorgCall(oldChain, newChain, ReorgState(newChain))
    \/ ReorgLookup
    \/ ReorgRestore
    \/ ReorgReplay

\* an enabled cache with its decoders registered, on which reorgs are
\* declared with new chains in any list order
SpecReplay == InitReorg /\ [][NextReplay]_vars

\* the headers of a chain with a number above n, in ascending number order
RECURSIVE SortedAbove(_, _)
SortedAbove(chain, n) ==
    LET above == {chain[j] : j \in {k \in DOMAIN chain : chain[k].Number > n}}
    IN IF above = {} THEN <<>>
       ELSE LET lowest == CHOOSE h \in above : \A g \in above : h.Number <= g.Number
            IN <<lowest>> \o SortedAbove(chain, lowest.Number)

\* C26: when the common ancestor is found in history, HandleReorg calls
\* Update exactly once for each header of the new chain whose number is above
\* the ancestor's and for no other header, in ascending block-number order
\* whatever the order of the new chain list; when it returns the current
\* snapshot is that of the highest-numbered replayed header, or the ancestor
\* when none was replayed.
C26_ReplayAscending ==
    (/\ ReorgReturned /\ config.Enabled
     /\ FindCommon(last.oldChain, last.newChain, Len(last.oldChain))
           \in DOMAIN last.pre.snapshots)
    => LET pre == last.pre
           ancestor ==
               pre.snapshots[FindCommon(last.oldChain, last.newChain, Len(last.oldChain))]
           replayed == SortedAbove(last.newChain, pre.heap[ancestor].BlockNumber)
       IN /\ stats.Updates = pre.stats.Updates + Len(replayed)
          /\ Len(heap) = Len(pre.heap) + Len(replayed)
          /\ \A i \in 1..Len(replayed) :
                /\ heap[Len(pre.heap) + i].BlockNumber = replayed[i].Number
                /\ heap[Len(pre.heap) + i].BlockHash = replayed[i].Hash
          /\ current = IF replayed = <<>> THEN ancestor ELSE Len(heap)

\* a reorg that found its ancestor and replayed a new chain listed tip first
C26_ReplayedOutOfOrder ==
    /\ ReorgReturned /\ last.ret = "nil"
    /\ ~Ascending(last.newChain)
    /\ Len(heap) >= 3
    /\ heap[Len(heap) - 1].BlockNumber > heap[Len(heap)].BlockNumber
    /\ current = Len(heap)

--------------------------------------------------------------------------
(* Update: decode failures and addresses without decoder *)

\* the decoder found registered for address a, among the decoders decs that
\* a call's lookups found, fails on the slots reader r returns
DecodeFailsWith(decs, a, r) ==
    /\ a \in DOMAIN decs
    /\ Decode(decs[a], ExpectedRaw(a, decs[a], r)).err # ""

\* so for the last call of the writer that returned
DecodeFails(a, r) == DecodeFailsWith(last.decs, a, r)

\* the step is one of the writer, which moves it to its next position in an
\* Update or a HandleReorg call
WriterStep == wpc' # wpc

\* C27: if the decoder of a watched address A returns a decode error during
\* Update(h, r), then A is absent from the snapshot built for h, every other
\* watched address is still in it, the snapshot is inserted into history and
\* published as current, Update returns success, and ValidationErrors is
\* unchanged by every step of the call.
C27_DecodeErrorSkipsContract ==
    [][/\ (/\ wpc = "publish" /\ wpc' = "idle" /\ config.Enabled
           /\ \E a \in watchlist : DecodeFailsWith(upd.decs, a, upd.stateDB))
          => LET S == heap'[current']
             IN /\ \A a \in watchlist :
                      IF DecodeFailsWith(upd.decs, a, upd.stateDB)
                      THEN a \notin DOMAIN S.Contracts
                      ELSE a \in DOMAIN S.Contracts
                /\ current' = Len(heap') /\ Len(heap') = Len(upd.pre.heap) + 1
                /\ S.BlockNumber = upd.block.Number
                /\ S.BlockHash = upd.block.Hash
                /\ upd.block.Hash \in DOMAIN snapshots'
                /\ snapshots'[upd.block.Hash] = current'
                /\ last'.op = "Update" /\ last'.ret = "nil"
       /\ WriterStep => stats'.ValidationErrors = stats.ValidationErrors]_vars

\* an update in which the second decoder failed on Q and the pool was cached
C27_Witness ==
    /\ UpdateReturned /\ config.Enabled
    /\ watchlist = {"P", "Q"}
    /\ DecodeFails("Q", last.stateDB)
    /\ ~DecodeFails("P", last.stateDB)
    /\ DOMAIN heap[current].Contracts = {"P"}
    /\ heap[current].Contracts["P"].Decoded # Nil
    /\ snapshots[last.block.Hash] = current

\* C28: for every watched address A without a registered decoder when Update
\* processes it, the published snapshot holds A with type Unknown, an empty
\* RawSlots map and no decoded record, and the state reader is not called for
\* A; hence after an update in which no decode fails the key set of Contracts
\* equals the watchlist.
C28_NoDecoderGivesUnknownEntry ==
    (UpdateReturned /\ config.Enabled)
    => LET S == heap[current]
       IN /\ \A a \in watchlist \ DOMAIN last.decs :
                /\ a \in DOMAIN S.Contracts
                /\ S.Contracts[a].Address = a
                /\ S.Contracts[a].Type = ContractTypeUnknown
                /\ S.Contracts[a].RawSlots = <<>>
                /\ S.Contracts[a].Decoded = Nil
          /\ watchlist \cap DOMAIN last.decs = {} => ~last.readerCalled
          /\ (\A a \in watchlist : ~DecodeFails(a, last.stateDB)) =>
                DOMAIN S.Contracts = watchlist

\* an update of a cache watching P and Q with a decoder for P alone
C28_Witness ==
    /\ UpdateReturned /\ config.Enabled
    /\ watchlist = {"P", "Q"}
    /\ DOMAIN last.decs = {"P"}
    /\ DOMAIN heap[current].Contracts = {"P", "Q"}
    /\ heap[current].Contracts["Q"] = NewContractState("Q")
    /\ heap[current].Contracts["P"].Type = ContractTypeUniswapV2

\* an update of a cache with a watchlist and no decoder at all
C28_WitnessNoReader ==
    /\ UpdateReturned /\ config.Enabled
    /\ watchlist = {"P", "Q"}
    /\ last.decs = <<>>
    /\ ~last.readerCalled
    /\ DOMAIN heap[current].Contracts = {"P", "Q"}

--------------------------------------------------------------------------
(* Update and concurrent registrations *)

\* C29: during Update the registry read lock is held for the whole time the
\* decoder of an address is in use, so that no RegisterDecoder, for any
\* address, completes between the registry lookup for A and the end of A's
\* decode.
C29_NoRegistrationWhileDecoding ==
    [][wpc = "read" => decoders' = decoders]_vars

\* a decoder was registered after Update looked an address up and before it
\* read and decoded that address
C29_RegisteredWhileDecoding ==
    /\ wpc = "read"
    /\ last.op = "RegisterDecoder"
    /\ upd.addr = "Q" /\ ~upd.hasDecoder
    /\ "Q" \in DOMAIN decoders

\* an enabled cache watching P and Q with an empty registry; the host
\* registers and replaces decoders for both addresses while updates run
InitRegs ==
    /\ config = [Enabled |-> TRUE, ShadowMode |-> TRUE, MaxSnapshots |-> 2]
    /\ watchlist = {"P", "Q"}
    /\ heap = <<InitialSnapshot>>
    /\ current = 1
    /\ snapshots = <<>>
    /\ decoders = <<>>
    /\ stats = ZeroStats
    /\ wpc = "idle"
    /\ upd = NoUpdate
    /\ reorg = NoReorg
    /\ held = [r \in ReaderIds |-> 0]
    /\ last = NoCall
    /\ dec = NoDecode
    /\ gst = NoStatistics
    /\ validation = NoValidation
    /\ lookup = NoLookup
    /\ hotCache = "cache"

NextRegs ==
    \/ \E block \in Headers : UpdateCall(block, StateAt(block))
    \/ UpdateLookup
    \/ UpdateRead
    \/ UpdateStore
    \/ UpdatePublish
    \/ \E addr \in Addrs, decoder \in DecoderSet : RegisterDecoder(addr, decoder)

SpecRegs == InitRegs /\ [][NextRegs]_vars

\* the entry has type Unknown, no raw slots and no decoded record
UnknownForm(entry) ==
    /\ entry.Type = ContractTypeUnknown
    /\ entry.RawSlots = <<>>
    /\ entry.Decoded = Nil

\* the entry is built entirely from decoder D on reader r: its type, the keys
\* of its raw slots and its decoded record
BuiltFromDecoder(entry, a, D, r) ==
    /\ entry.Type = DecoderType(D)
    /\ DOMAIN entry.RawSlots = Range(RequiredSlots(D))
    /\ entry.RawSlots = ExpectedRaw(a, D, r)
    /\ Decode(D, entry.RawSlots).err = ""
    /\ entry.Decoded = Decode(D, entry.RawSlots).state

\* C30: under any interleaving of RegisterDecoder calls with a running
\* Update, every ContractState of the snapshot that Update publishes is
\* either of the Unknown form or built entirely from one decoder D that was
\* registered for its address when Update looked the address up: type,
\* raw-slot keys and decoded record all come from D, never from two decoders.
C30_EntryFromOneDecoder ==
    [][/\ (wpc = "lookup" /\ wpc' = "read") =>
             IF upd'.hasDecoder
             THEN upd'.addr \in DOMAIN decoders /\ upd'.decoder = decoders[upd'.addr]
             ELSE upd'.addr \notin DOMAIN decoders
       /\ wpc = "read" =>
             \A a \in DOMAIN heap'[upd.id].Contracts :
                IF a \in DOMAIN heap[upd.id].Contracts
                THEN heap'[upd.id].Contracts[a] = heap[upd.id].Contracts[a]
                ELSE /\ a = upd.addr
                     /\ IF upd.hasDecoder
                        THEN BuiltFromDecoder(heap'[upd.id].Contracts[a], a, upd.decoder,
                                              upd.stateDB)
                        ELSE UnknownForm(heap'[upd.id].Contracts[a])
       /\ (wpc = "publish" /\ wpc' # "publish") =>
             /\ current' = upd.id
             /\ heap'[upd.id] = heap[upd.id]
             /\ \A a \in DOMAIN heap[upd.id].Contracts :
                   \/ UnknownForm(heap[upd.id].Contracts[a])
                   \/ \E D \in DecoderSet :
                         BuiltFromDecoder(heap[upd.id].Contracts[a], a, D, upd.stateDB)]_vars

\* Update is about to publish a snapshot whose entry for Q was built from the
\* decoder found at the lookup, which a registration has replaced since, and
\* whose entry for P is of the Unknown form although a decoder is registered
\* for P by now
C30_Witness ==
    /\ wpc = "publish"
    /\ DOMAIN heap[upd.id].Contracts = {"P", "Q"}
    /\ heap[upd.id].Contracts["Q"].Type = ContractTypeUniswapV2
    /\ "Q" \in DOMAIN decoders /\ decoders["Q"] = "StubDecoder"
    /\ UnknownForm(heap[upd.id].Contracts["P"])
    /\ "P" \in DOMAIN decoders

--------------------------------------------------------------------------
(* Update: the order of its effects *)

\* the snapshots Update calls have published as current so far: every
\* snapshot object an Update allocated, but the one of a call still running
PublishedByUpdate == {id \in 2..Len(heap) : id \notin InFlight}

\* C31: each enabled Update inserts its snapshot into history and cleans up,
\* then publishes it as current, then adds exactly 1 to Updates; so at every
\* moment a concurrent reader may see, the Updates counter does not exceed the
\* number of snapshots Update has already published as current.
C31_UpdatesNotAheadOfPublished ==
    stats.Updates <= Cardinality(PublishedByUpdate)

\* the counter already shows an update whose snapshot is still being filled
C31_CountedBeforePublished ==
    /\ wpc = "read"
    /\ stats.Updates = 1
    /\ current = 1
    /\ snapshots = <<>>

\* C32: every ContractState that Update(h, r) places in a snapshot has a
\* LastUpdated equal to h's block number, the block at which it was refreshed.
C32_LastUpdatedIsBlockNumber ==
    (UpdateReturned /\ config.Enabled) =>
        \A a \in DOMAIN heap[current].Contracts :
            heap[current].Contracts[a].LastUpdated = last.block.Number

\* a decoded entry of a snapshot of block 2 that still carries LastUpdated 0
C32_LastUpdatedLeftZero ==
    /\ UpdateReturned /\ config.Enabled
    /\ last.block.Number = 2
    /\ "P" \in DOMAIN heap[current].Contracts
    /\ heap[current].Contracts["P"].Decoded # Nil
    /\ heap[current].Contracts["P"].LastUpdated = 0

--------------------------------------------------------------------------
(* History and current *)

\* C33: in every reachable state every entry of the history map is keyed by
\* its own block hash: for every hash k in history the snapshot stored under
\* k has BlockHash = k, and it is a snapshot object that an Update call built
\* for a header with that hash.
C33_HistoryKeyedByOwnHash ==
    \A k \in DOMAIN snapshots :
        /\ snapshots[k] \in 2..Len(heap)
        /\ heap[snapshots[k]].BlockHash = k
        /\ \E h \in Headers :
              /\ h.Hash = k
              /\ heap[snapshots[k]].BlockNumber = h.Number
              /\ heap[snapshots[k]].BlockTime = h.Time
        /\ OneUpdateResult(heap[snapshots[k]])

\* history holds blocks of both branches after a reorg's replay, while the
\* next update is being stored
C33_Witness ==
    /\ Cardinality(DOMAIN snapshots) >= 3
    /\ \E k \in DOMAIN snapshots : k[2] = "b"
    /\ \E k \in DOMAIN snapshots : k[2] = "a" /\ k[1] >= 2
    /\ stats.ReorgCount = 1

\* C34: whenever an Update or HandleReorg call has returned on an enabled
\* cache with MaxSnapshots >= 1 and at least one update has been performed,
\* the current snapshot is the entry stored in history under its own block
\* hash: the cleanup of an update never removes the snapshot just inserted,
\* and a republished ancestor is still retained.
C34_CurrentIsInHistory ==
    (/\ UpdateReturned \/ ReorgReturned
     /\ last.ret = "nil"
     /\ config.Enabled /\ config.MaxSnapshots >= 1
     /\ stats.Updates >= 1)
    => /\ heap[current].BlockHash \in DOMAIN snapshots
       /\ snapshots[heap[current].BlockHash] = current

\* a reorg that republished its ancestor and replayed nothing
C34_Witness ==
    /\ ReorgReturned /\ last.ret = "nil"
    /\ stats.Updates = 2
    /\ current = 2 /\ Len(heap) = 3
    /\ heap[3].BlockNumber > heap[2].BlockNumber
    /\ snapshots[heap[current].BlockHash] = current

\* an update whose cleanup removed an older snapshot
C34_WitnessCleanup ==
    /\ UpdateReturned
    /\ stats.Updates = 2
    /\ DOMAIN snapshots = {heap[current].BlockHash}

\* C35: on an enabled cache HandleReorg returns normally (a success or an
\* error value, never a runtime fault) for every pair of old chain and new
\* chain, an empty new chain included, and in that case leaves the current
\* snapshot and history unchanged.
C35_ReorgNeverFaults ==
    (ReorgReturned /\ config.Enabled)
    => /\ last.ret # "panic"
       /\ wpc # "panic"
       /\ last.newChain = <<>> =>
             (current = last.pre.current /\ snapshots = last.pre.snapshots)

\* HandleReorg was called with an empty new chain on a cache that holds
\* snapshots, and ended in the index-out-of-range panic
C35_PanicOnEmptyNewChain ==
    /\ wpc = "panic"
    /\ last.op = "HandleReorg" /\ last.ret = "panic"
    /\ last.newChain = <<>> /\ last.oldChain # <<>>
    /\ stats.ReorgCount = 1
    /\ snapshots # <<>>

====
